---- MODULE Spec2Model ----
(***************************************************************************)
(* A model of the counter-sampling and rate-derivation routines of the     *)
(* sysstats package (CPU, network, disk and process domains on linux).     *)
(*                                                                         *)
(* Text is modelled as a sequence of one-character strings, so that        *)
(* strings.Fields, strconv.ParseUint, the `^cpu` pattern and the trimming  *)
(* of a trailing ':' are computed, not assumed.  The uint64 counters are   *)
(* modelled with UintBits bits: every addition, subtraction and product    *)
(* of counters is taken modulo Mod == 2^UintBits, as the Go code takes it  *)
(* modulo 2^64.  A float64 is modelled exactly: a rational, NaN or an      *)
(* infinity (the values of the model are far below 2^53).                  *)
(***************************************************************************)
EXTENDS Integers, Sequences, FiniteSets, TLC

VARIABLES
    pc,            \* position of the call being modelled
    stats,         \* the text record handed to a record parser
    parsed,        \* what the record parser returned
    firstSample,   \* first raw snapshot of a derive / interval call
    secondSample,  \* second raw snapshot of a derive / interval call
    pending,       \* entities of the range loop not visited yet
    avgStats,      \* the derived snapshot built so far / returned
    err,           \* the error returned ("none" when nil)
    source,        \* contents of the counter source at the two captures
    now,           \* the clock: what time.Now().Unix() returns
    interval       \* the interval argument of an interval call

vars == <<pc, stats, parsed, firstSample, secondSample, pending, avgStats,
          err, source, now, interval>>

\* The value of a nil map, nil slice or unset variable.
Nil == [nil |-> TRUE]

(***************************************************************************)
(* Bounds of the model.                                                    *)
(***************************************************************************)
\* Width of the modelled unsigned counters (uint64 in the code).
UintBits == 21
\* Largest number of numeric fields of a generated record.
MaxFields == 17

Mod == 2 ^ UintBits

(***************************************************************************)
(* Text: strings.Fields and strconv.ParseUint / ParseInt.                  *)
(***************************************************************************)
DigitChars == <<"0", "1", "2", "3", "4", "5", "6", "7", "8", "9">>

IsDigit(c) == \E d \in 1..10 : DigitChars[d] = c

DigitVal(c) == (CHOOSE d \in 1..10 : DigitChars[d] = c) - 1

IsSpace(c) == c \in {" ", "\t", "\n"}

RECURSIVE ToDigits(_)
\* The decimal text of a natural number (strconv.Itoa), used to build inputs.
ToDigits(n) ==
    IF n < 10 THEN <<DigitChars[n + 1]>>
    ELSE ToDigits(n \div 10) \o <<DigitChars[(n % 10) + 1]>>

\* strings.Fields: the maximal runs of non-space characters of s, in order.
Fields(s) ==
    LET starts   == {i \in 1..Len(s) : ~IsSpace(s[i]) /\ (i = 1 \/ IsSpace(s[i - 1]))}
        EndOf(i) == CHOOSE j \in i..Len(s) :
                        /\ \A k \in i..j : ~IsSpace(s[k])
                        /\ (j = Len(s) \/ IsSpace(s[j + 1]))
        Nth(k)   == CHOOSE i \in starts : Cardinality({j \in starts : j < i}) = k - 1
    IN  [k \in 1..Cardinality(starts) |-> SubSeq(s, Nth(k), EndOf(Nth(k)))]

RECURSIVE ParseDigits(_, _, _)
\* The digit loop of strconv.ParseUint(s, 10, 64), left to right: -1 at the
\* first character that is no digit, limit at the first digit that takes the
\* value past limit - 1, the value otherwise.
ParseDigits(s, acc, limit) ==
    IF s = <<>> THEN acc
    ELSE IF ~IsDigit(Head(s)) THEN -1
    ELSE LET v == acc * 10 + DigitVal(Head(s))
         IN  IF v >= limit THEN limit ELSE ParseDigits(Tail(s), v, limit)

\* strconv.ParseUint(s, 10, 64): no sign is accepted; a syntax error returns
\* 0 and a range error returns the largest value.
ParseUint(s) ==
    IF s = <<>> THEN [val |-> 0, err |-> "syntax"]
    ELSE LET r == ParseDigits(s, 0, Mod)
         IN  IF r = -1 THEN [val |-> 0, err |-> "syntax"]
             ELSE IF r = Mod THEN [val |-> Mod - 1, err |-> "range"]
             ELSE [val |-> r, err |-> "none"]

\* strconv.ParseInt(s, 10, strconv.IntSize): an optional sign, then digits.
ParseInt(s) ==
    LET neg  == s # <<>> /\ Head(s) = "-"
        body == IF s # <<>> /\ Head(s) \in {"+", "-"} THEN Tail(s) ELSE s
        half == Mod \div 2
    IN  IF body = <<>> THEN [val |-> 0, err |-> "syntax"]
        ELSE LET r == ParseDigits(body, 0, half + 1)
             IN  IF r = -1 THEN [val |-> 0, err |-> "syntax"]
                 ELSE IF neg /\ r > half THEN [val |-> 0 - half, err |-> "range"]
                 ELSE IF ~neg /\ r >= half THEN [val |-> half - 1, err |-> "range"]
                 ELSE [val |-> IF neg THEN 0 - r ELSE r, err |-> "none"]

\* m with key k set to v (a Go map assignment m[k] = v).
Put(m, k, v) == (k :> v) @@ m

\* m[k] of a Go map: the zero value when the key is absent.
Get(m, k) == IF k \in DOMAIN m THEN m[k] ELSE 0

EmptyMap == <<>>

(***************************************************************************)
(* Record parsers.                                                         *)
(***************************************************************************)
\* The keys parseCpuRawStats stores fields 1..10 under.
CpuKeys == <<"user", "nice", "system", "idle", "iowait", "irq", "softirq",
             "steal", "guest", "guestnice">>

\* The keys parseIfaceRawStats stores fields 1..16 under.
NetKeys == <<"rxbytes", "rxpkts", "rxerrs", "rxdrop", "rxfifo", "rxframe",
             "rxcompr", "rxmulti", "txbytes", "txpkts", "txerrs", "txdrop",
             "txfifo", "txcolls", "txcarr", "txcompr">>

RECURSIVE CpuFieldLoop(_, _)
\* The loop `for i := 1; i < len(fields); i++` of parseCpuRawStats after its
\* first n iterations; fields[i] of the code is fields[i + 1] here.  Every
\* parsed field is added to `total` (modulo 2^64), fields 1..10 are stored
\* under their key, later fields are stored nowhere; the first field that
\* does not parse ends the loop with its error.
CpuFieldLoop(fields, n) ==
    IF n = 0 THEN [rawStats |-> EmptyMap, err |-> "none"]
    ELSE LET before == CpuFieldLoop(fields, n - 1)
         IN  IF before.err # "none" THEN before
             ELSE LET p      == ParseUint(fields[n + 1])
                      summed == Put(before.rawStats, "total",
                                    (Get(before.rawStats, "total") + p.val) % Mod)
                  IN  IF p.err # "none" THEN [rawStats |-> Nil, err |-> p.err]
                      ELSE [rawStats |-> IF n <= Len(CpuKeys)
                                         THEN Put(summed, CpuKeys[n], p.val)
                                         ELSE summed,
                            err |-> "none"]

\* parseCpuRawStats: (cpuName, rawStats, err).  fields[0] of a record without
\* any field is an index out of range, which aborts the process.
parseCpuRawStats(s) ==
    LET fields == Fields(s)
    IN  IF fields = <<>> THEN [cpuName |-> <<>>, rawStats |-> Nil, err |-> "panic"]
        ELSE LET r == CpuFieldLoop(fields, Len(fields) - 1)
             IN  IF r.err # "none"
                 THEN [cpuName |-> <<>>, rawStats |-> Nil, err |-> r.err]
                 ELSE [cpuName |-> fields[1], rawStats |-> r.rawStats, err |-> "none"]

RECURSIVE IfaceFieldLoop(_, _)
\* The loop of parseIfaceRawStats after its first n iterations: fields
\* 1..16 are stored, later fields are parsed and dropped; the first field
\* that does not parse ends the loop with its error.
IfaceFieldLoop(fields, n) ==
    IF n = 0 THEN [rawStats |-> EmptyMap, err |-> "none"]
    ELSE LET before == IfaceFieldLoop(fields, n - 1)
         IN  IF before.err # "none" THEN before
             ELSE LET p == ParseUint(fields[n + 1])
                  IN  IF p.err # "none" THEN [rawStats |-> Nil, err |-> p.err]
                      ELSE [rawStats |-> IF n <= Len(NetKeys)
                                         THEN Put(before.rawStats, NetKeys[n], p.val)
                                         ELSE before.rawStats,
                            err |-> "none"]

\* The trimming of one trailing ':' of the first field.
TrimColon(name) ==
    IF Len(name) >= 1 /\ name[Len(name)] = ":"
    THEN SubSeq(name, 1, Len(name) - 1)
    ELSE name

\* parseIfaceRawStats: (ifaceName, rawStats, err).
parseIfaceRawStats(s) ==
    LET fields == Fields(s)
    IN  IF fields = <<>> THEN [ifaceName |-> <<>>, rawStats |-> Nil, err |-> "panic"]
        ELSE LET r == IfaceFieldLoop(fields, Len(fields) - 1)
             IN  IF r.err # "none"
                 THEN [ifaceName |-> <<>>, rawStats |-> Nil, err |-> r.err]
                 ELSE [ifaceName |-> TrimColon(fields[1]), rawStats |-> r.rawStats,
                       err |-> "none"]

\* DiskRawStats{}: the zero value of the struct.
ZeroDiskRawStats ==
    [Major |-> 0, Minor |-> 0, Name |-> <<>>, ReadIOs |-> 0, ReadMerges |-> 0,
     ReadSectors |-> 0, ReadTicks |-> 0, WriteIOs |-> 0, WriteMerges |-> 0,
     WriteSectors |-> 0, WriteTicks |-> 0, InFlight |-> 0, IOTicks |-> 0,
     TimeInQueue |-> 0, SampleTime |-> 0]

\* The number of fields parseDiskRawStats insists on.
DiskFieldCount == 14

\* parseDiskRawStats: (diskRawStats, err).  The field count is checked; the
\* error of every strconv call is dropped (`x, _ := ...`), so a field that
\* does not parse is stored as the value strconv returns with its error.
parseDiskRawStats(s) ==
    LET fields == Fields(s)
    IN  IF Len(fields) # DiskFieldCount
        THEN [diskRawStats |-> ZeroDiskRawStats, err |-> "fields"]
        ELSE [diskRawStats |->
                [Major        |-> ParseInt(fields[1]).val,
                 Minor        |-> ParseInt(fields[2]).val,
                 Name         |-> fields[3],
                 ReadIOs      |-> ParseUint(fields[4]).val,
                 ReadMerges   |-> ParseUint(fields[5]).val,
                 ReadSectors  |-> ParseUint(fields[6]).val,
                 ReadTicks    |-> ParseUint(fields[7]).val,
                 WriteIOs     |-> ParseUint(fields[8]).val,
                 WriteMerges  |-> ParseUint(fields[9]).val,
                 WriteSectors |-> ParseUint(fields[10]).val,
                 WriteTicks   |-> ParseUint(fields[11]).val,
                 InFlight     |-> ParseUint(fields[12]).val,
                 IOTicks      |-> ParseUint(fields[13]).val,
                 TimeInQueue  |-> ParseUint(fields[14]).val,
                 SampleTime   |-> 0],
              err |-> "none"]

(***************************************************************************)
(* Generated records: a prefix of leading tokens, then n numeric fields,   *)
(* all equal to the token b except field p, which is the token t.          *)
(***************************************************************************)
RECURSIVE Join(_)
\* The tokens separated by one blank.
Join(tokens) ==
    IF tokens = <<>> THEN <<>>
    ELSE IF Len(tokens) = 1 THEN tokens[1]
    ELSE tokens[1] \o <<" ">> \o Join(Tail(tokens))

Record(prefix, n, p, t, b) ==
    Join(prefix \o [i \in 1..n |-> IF i = p THEN t ELSE b])

\* Tokens a numeric field is drawn from: small values, the largest counter,
\* the first value out of range, and text that is no unsigned integer.
GoodTokens == {<<"0">>, <<"7">>, ToDigits(Mod - 1)}
BadTokens == {<<"x">>, <<"-", "1">>, ToDigits(Mod)}
Tokens == GoodTokens \cup BadTokens
BaseTokens == {<<"1">>, <<"7">>}

CpuNames == {<<"c", "p", "u">>, <<"c", "p", "u", "0">>}
IfaceNames == {<<"l", "o", ":">>, <<"e", "t", "h", "0", ":">>}
DiskPrefixes == {<< <<"8">>, <<"0">>, <<"s", "d", "a">> >>,
                 << <<"8">>, <<"s", "d", "a">> >>,
                 << <<"x">>, <<"-", "1">>, <<"s", "d", "b">> >>}

Shapes == {s \in [n : 0..MaxFields, p : 1..MaxFields, t : Tokens, b : BaseTokens] :
              s.p <= s.n \/ (s.n = 0 /\ s.p = 1 /\ s.t = <<"0">>)}

CpuRecords == {Record(<<name>>, s.n, s.p, s.t, s.b) : name \in CpuNames, s \in Shapes}
IfaceRecords == {Record(<<name>>, s.n, s.p, s.t, s.b) : name \in IfaceNames, s \in Shapes}
DiskRecords == {Record(prefix, s.n, s.p, s.t, s.b) : prefix \in DiskPrefixes, s \in Shapes}

(***************************************************************************)
(* SpecParse: one record handed to the record parser of one domain.        *)
(***************************************************************************)
Idle == /\ firstSample = Nil /\ secondSample = Nil /\ pending = {}
        /\ avgStats = Nil /\ err = "none" /\ source = Nil /\ now = Nil
        /\ interval = Nil

InitParse ==
    /\ parsed = Nil
    /\ Idle
    /\ \/ pc = "cpuRecord" /\ stats \in CpuRecords
       \/ pc = "ifaceRecord" /\ stats \in IfaceRecords
       \/ pc = "diskRecord" /\ stats \in DiskRecords

ParseCpuRecord ==
    /\ pc = "cpuRecord"
    /\ parsed' = parseCpuRawStats(stats)
    /\ pc' = "cpuParsed"
    /\ UNCHANGED <<stats, firstSample, secondSample, pending, avgStats, err, source, now, interval>>

ParseIfaceRecord ==
    /\ pc = "ifaceRecord"
    /\ parsed' = parseIfaceRawStats(stats)
    /\ pc' = "ifaceParsed"
    /\ UNCHANGED <<stats, firstSample, secondSample, pending, avgStats, err, source, now, interval>>

ParseDiskRecord ==
    /\ pc = "diskRecord"
    /\ parsed' = parseDiskRawStats(stats)
    /\ pc' = "diskParsed"
    /\ UNCHANGED <<stats, firstSample, secondSample, pending, avgStats, err, source, now, interval>>

NextParse == ParseCpuRecord \/ ParseIfaceRecord \/ ParseDiskRecord

SpecParse == InitParse /\ [][NextParse]_vars

(***************************************************************************)
(* float64 values: a rational in lowest terms, NaN, +Inf or -Inf.          *)
(***************************************************************************)
RECURSIVE GCD(_, _)
GCD(a, b) == IF b = 0 THEN a ELSE GCD(b, a % b)

Abs(n) == IF n < 0 THEN 0 - n ELSE n

Rat(n, d) ==
    LET g == GCD(Abs(n), d)
    IN  [k |-> "num", n |-> n \div g, d |-> d \div g]

NaN == [k |-> "NaN"]
PosInf == [k |-> "+Inf"]
NegInf == [k |-> "-Inf"]
Zero == Rat(0, 1)

\* float64(n) / float64(d) for integers n >= 0 and d: IEEE 754 division, where
\* 0/0 is NaN and n/0 is +Inf (-0 is identified with 0).
FDiv(n, d) ==
    IF d = 0 THEN (IF n = 0 THEN NaN ELSE PosInf)
    ELSE IF d < 0 THEN Rat(0 - n, 0 - d)
    ELSE Rat(n, d)

\* Mantissa bits of a float64.
MantissaBits == 53

RECURSIVE BitLen(_)
BitLen(n) == IF n = 0 THEN 0 ELSE 1 + BitLen(n \div 2)

RECURSIVE LeadingZeros(_, _)
\* Zero bits before the first one bit of the binary fraction r/q, 0 < r < q.
LeadingZeros(r, q) == IF 2 * r >= q THEN 0 ELSE 1 + LeadingZeros(2 * r, q)

RECURSIVE ShiftMod(_, _, _)
\* (r * 2^n) mod q, eight doublings at a time.
ShiftMod(r, n, q) ==
    IF n = 0 \/ r = 0 THEN r
    ELSE IF n >= 8 THEN ShiftMod((256 * r) % q, n - 8, q)
    ELSE ShiftMod((2 * r) % q, n - 1, q)

\* How the float64 nearest to p/q > 0 compares with p/q: 1 above, -1 below,
\* 0 equal (round to nearest, ties to even, on a 53-bit mantissa).
FloatCmp(p, q) ==
    LET ip   == p \div q
        r    == p % q
        bits == IF ip > 0 THEN MantissaBits - BitLen(ip)
                ELSE MantissaBits + LeadingZeros(r, q)
        rem  == ShiftMod(r, bits, q)
        last == (2 * ShiftMod(r, bits - 1, q)) \div q
    IN  IF r = 0 \/ rem = 0 THEN 0
        ELSE IF 2 * rem > q \/ (2 * rem = q /\ last = 1) THEN 1
        ELSE -1

\* strconv.ParseFloat(fmt.Sprintf("%3.2f", x)) for the float64 x nearest to
\* n/d, n >= 0 and d > 0, in hundredths: the decimal nearest to the float;
\* when n/d is half way between two hundredths the float decides, and when
\* the float is half way as well the even hundredth is taken.
Round2(n, d) ==
    LET whole == n \div d
        frac  == n % d
        q     == 100 * whole + (100 * frac) \div d
        r     == (100 * frac) % d
    IN  IF 2 * r < d THEN q
        ELSE IF 2 * r > d THEN q + 1
        ELSE LET c == FloatCmp(2 * q + 1, 200)
             IN  IF c > 0 THEN q + 1
                 ELSE IF c < 0 THEN q
                 ELSE IF q % 2 = 0 THEN q ELSE q + 1

\* The same formatting round trip of any float64 value.
FormatParse2(x) ==
    IF x.k # "num" THEN x
    ELSE IF x.n < 0 THEN Rat(0 - Round2(0 - x.n, x.d), 100)
    ELSE Rat(Round2(x.n, x.d), 100)

\* 100.00 - x in float64.
Sub100(x) ==
    IF x.k = "NaN" THEN NaN
    ELSE IF x.k = "+Inf" THEN NegInf
    ELSE IF x.k = "-Inf" THEN PosInf
    ELSE Rat(100 * x.d - x.n, x.d)

\* m[k] of a Go map of float64.
GetFloat(m, key) == IF key \in DOMAIN m THEN m[key] ELSE Zero

(***************************************************************************)
(* CPU: getCpuAvgStats.                                                    *)
(***************************************************************************)
\* regexp.MatchString(`^cpu.*$`, cpuName): `.` matches no newline.
MatchesCpu(name) ==
    /\ Len(name) >= 3
    /\ SubSeq(name, 1, 3) = <<"c", "p", "u">>
    /\ \A i \in 1..Len(name) : name[i] # "\n"

\* Percent without the factor 100.00.
PercentNoScale(delta, timeDelta) ==
    FormatParse2(FDiv(delta, timeDelta))

\* Percent with the factor 200.00.
PercentDoubled(delta, timeDelta) ==
    FormatParse2(FDiv(delta * 200, timeDelta))

\* float64(delta) * 100.00 / timeDelta, through Sprintf("%3.2f") and
\* ParseFloat.
Percent(delta, timeDelta) ==
    FormatParse2(FDiv(delta * 100, timeDelta))

\* The loop over the keys of secondRawStats: the key skipped is `Total`,
\* which parseCpuRawStats never stores (it stores `total`).
CpuRangeKeys(firstRawStats, secondRawStats) ==
    LET timeDelta == (Get(secondRawStats, "total") - Get(firstRawStats, "total")) % Mod
    IN  [key \in DOMAIN secondRawStats \ {"Total"} |->
            Percent((secondRawStats[key] - Get(firstRawStats, key)) % Mod, timeDelta)]

\* CpuEntityStats without the assignment of `total` after the loop.
CpuEntityStatsLoopOnly(firstRawStats, secondRawStats) ==
    CpuRangeKeys(firstRawStats, secondRawStats)

\* The CpuAvgStats of one cpu: the loop, then `total` set from the rounded
\* idle percentage.
CpuEntityStats(firstRawStats, secondRawStats) ==
    LET cpuStats == CpuRangeKeys(firstRawStats, secondRawStats)
    IN  Put(cpuStats, "total", FormatParse2(Sub100(GetFloat(cpuStats, "idle"))))

\* CpuRangeStep with `continue` in place of the return for a missing key.
CpuRangeStepSkipMissing(cpuName) ==
    IF ~MatchesCpu(cpuName)
    THEN /\ avgStats' = Nil /\ err' = "pattern" /\ pc' = "cpuDerived"
         /\ UNCHANGED pending
    ELSE /\ avgStats' = IF cpuName \in DOMAIN firstSample
                        THEN Put(avgStats, cpuName,
                                 CpuEntityStats(firstSample[cpuName], secondSample[cpuName]))
                        ELSE avgStats
         /\ pending' = pending \ {cpuName}
         /\ UNCHANGED <<err, pc>>

\* One iteration of `for cpuName, secondRawStats := range secondSample`.
CpuRangeStep(cpuName) ==
    IF ~MatchesCpu(cpuName)
    THEN /\ avgStats' = Nil /\ err' = "pattern" /\ pc' = "cpuDerived"
         /\ UNCHANGED pending
    ELSE IF cpuName \notin DOMAIN firstSample
    THEN /\ avgStats' = Nil /\ err' = "missing" /\ pc' = "cpuDerived"
         /\ UNCHANGED pending
    ELSE /\ avgStats' = Put(avgStats, cpuName,
                            CpuEntityStats(firstSample[cpuName], secondSample[cpuName]))
         /\ pending' = pending \ {cpuName}
         /\ UNCHANGED <<err, pc>>

(***************************************************************************)
(* Network: getNetAvgStats.                                                *)
(***************************************************************************)
IfaceEntityStats(firstRawStats, secondRawStats) ==
    LET timeDelta == (Get(secondRawStats, "time") - Get(firstRawStats, "time")) % Mod
    IN  [key \in DOMAIN secondRawStats \ {"time"} |->
            FDiv((secondRawStats[key] - Get(firstRawStats, key)) % Mod, timeDelta)]

\* NetRangeStep without the test of `ok`: the lookup of a name the first
\* sample does not hold gives the empty map.
NetRangeStepUnchecked(ifaceName) ==
    /\ avgStats' = Put(avgStats, ifaceName,
                       IfaceEntityStats(IF ifaceName \in DOMAIN firstSample
                                        THEN firstSample[ifaceName] ELSE EmptyMap,
                                        secondSample[ifaceName]))
    /\ pending' = pending \ {ifaceName}
    /\ UNCHANGED <<err, pc>>

\* NetRangeStep with `break` in place of the return for a missing key: the
\* loop ends and what it has built so far is returned.
NetRangeStepBreak(ifaceName) ==
    IF ifaceName \notin DOMAIN firstSample
    THEN /\ pc' = "netDerived"
         /\ UNCHANGED <<avgStats, err, pending>>
    ELSE /\ avgStats' = Put(avgStats, ifaceName,
                            IfaceEntityStats(firstSample[ifaceName], secondSample[ifaceName]))
         /\ pending' = pending \ {ifaceName}
         /\ UNCHANGED <<err, pc>>

\* One iteration of `for ifaceName, secondRawStats := range secondSample`.
NetRangeStep(ifaceName) ==
    IF ifaceName \notin DOMAIN firstSample
    THEN /\ avgStats' = Nil /\ err' = "missing" /\ pc' = "netDerived"
         /\ UNCHANGED pending
    ELSE /\ avgStats' = Put(avgStats, ifaceName,
                            IfaceEntityStats(firstSample[ifaceName], secondSample[ifaceName]))
         /\ pending' = pending \ {ifaceName}
         /\ UNCHANGED <<err, pc>>

\* getNetAvgStats as a whole: (netAvgStats, err) once the range loop over
\* secondSample has ended.
getNetAvgStats(first, second) ==
    IF \E ifaceName \in DOMAIN second : ifaceName \notin DOMAIN first
    THEN [netAvgStats |-> Nil, err |-> "missing"]
    ELSE [netAvgStats |-> [ifaceName \in DOMAIN second |->
                              IfaceEntityStats(first[ifaceName], second[ifaceName])],
          err |-> "none"]

(***************************************************************************)
(* Disk: getDiskAvgStats.                                                  *)
(***************************************************************************)
\* Bytes of a sector.
SectorBytes == 512

\* DiskAvgStats{}: the zero value of the struct.
ZeroDiskAvgStats ==
    [Major |-> 0, Minor |-> 0, Name |-> <<>>, ReadIOs |-> Zero, ReadMerges |-> Zero,
     ReadBytes |-> Zero, WriteIOs |-> Zero, WriteMerges |-> Zero, WriteBytes |-> Zero,
     InFlight |-> 0, IOTicks |-> 0, TimeInQueue |-> 0]

\* Sectors taken for bytes.
SectorsAsBytes(sectors) == sectors

\* sectors*512 that stays at the largest uint64 when the product is above it.
SectorsToBytesSaturating(sectors) ==
    IF sectors * SectorBytes >= Mod THEN Mod - 1 ELSE sectors * SectorBytes

\* sectors*512 in uint64.
SectorsToBytes(sectors) == (sectors * SectorBytes) % Mod

\* The check that the samples are of one disk, on the name alone.
SameDiskByName(first, second) == first.Name = second.Name

\* The check that the samples are of one disk: major, minor and name.
SameDisk(first, second) ==
    /\ first.Major = second.Major
    /\ first.Minor = second.Minor
    /\ first.Name = second.Name

\* The time in queue of the second sample, not a difference.
TimeInQueueOfSecond(first, second) == second.TimeInQueue

\* secondSample.TimeInQueue - firstSample.TimeInQueue in uint64.
TimeInQueueDelta(first, second) == (second.TimeInQueue - first.TimeInQueue) % Mod

\* getDiskAvgStats with IOTicks assigned the difference of the two counters.
getDiskAvgStatsIOTicksDelta(first, second) ==
    LET timeDelta == second.SampleTime - first.SampleTime
        bytes(sectors) == SectorsToBytes(sectors)
    IN  IF ~SameDisk(first, second)
        THEN [diskAvgStats |-> ZeroDiskAvgStats, err |-> "mismatch"]
        ELSE [diskAvgStats |->
                [Major       |-> first.Major,
                 Minor       |-> first.Minor,
                 Name        |-> first.Name,
                 ReadIOs     |-> FDiv((second.ReadIOs - first.ReadIOs) % Mod, timeDelta),
                 ReadMerges  |-> FDiv((second.ReadMerges - first.ReadMerges) % Mod, timeDelta),
                 ReadBytes   |-> FDiv((bytes(second.ReadSectors) - bytes(first.ReadSectors)) % Mod,
                                      timeDelta),
                 WriteIOs    |-> FDiv((second.WriteIOs - first.WriteIOs) % Mod, timeDelta),
                 WriteMerges |-> FDiv((second.WriteMerges - first.WriteMerges) % Mod, timeDelta),
                 WriteBytes  |-> FDiv((bytes(second.WriteSectors) - bytes(first.WriteSectors)) % Mod,
                                      timeDelta),
                 InFlight    |-> second.InFlight,
                 IOTicks     |-> (second.IOTicks - first.IOTicks) % Mod,
                 TimeInQueue |-> TimeInQueueDelta(first, second)],
              err |-> "none"]

\* getDiskAvgStats: (diskAvgStats, err).  IOTicks is never assigned.
getDiskAvgStats(first, second) ==
    LET timeDelta == second.SampleTime - first.SampleTime
        bytes(sectors) == SectorsToBytes(sectors)
    IN  IF ~SameDisk(first, second)
        THEN [diskAvgStats |-> ZeroDiskAvgStats, err |-> "mismatch"]
        ELSE [diskAvgStats |->
                [Major       |-> first.Major,
                 Minor       |-> first.Minor,
                 Name        |-> first.Name,
                 ReadIOs     |-> FDiv((second.ReadIOs - first.ReadIOs) % Mod, timeDelta),
                 ReadMerges  |-> FDiv((second.ReadMerges - first.ReadMerges) % Mod, timeDelta),
                 ReadBytes   |-> FDiv((bytes(second.ReadSectors) - bytes(first.ReadSectors)) % Mod,
                                      timeDelta),
                 WriteIOs    |-> FDiv((second.WriteIOs - first.WriteIOs) % Mod, timeDelta),
                 WriteMerges |-> FDiv((second.WriteMerges - first.WriteMerges) % Mod, timeDelta),
                 WriteBytes  |-> FDiv((bytes(second.WriteSectors) - bytes(first.WriteSectors)) % Mod,
                                      timeDelta),
                 InFlight    |-> second.InFlight,
                 IOTicks     |-> 0,
                 TimeInQueue |-> TimeInQueueDelta(first, second)],
              err |-> "none"]

(***************************************************************************)
(* Process: getProcAvgStats.                                               *)
(***************************************************************************)
\* The new-process rate without the test of timeDelta.
NewProcsUnguarded(first, second) ==
    FDiv((second.Processes - first.Processes) % Mod, second.Time - first.Time)

\* The number of new processes per second: 0 unless timeDelta > 0.
NewProcs(first, second) ==
    LET timeDelta == second.Time - first.Time
    IN  IF timeDelta > 0
        THEN FDiv((second.Processes - first.Processes) % Mod, timeDelta)
        ELSE Zero

\* getProcAvgStats with the current values taken from the first sample.
getProcAvgStatsOfFirst(first, second) ==
    [procAvgStats |->
        [NewProcs |-> NewProcs(first, second),
         Running  |-> first.Running,
         Blocked  |-> first.Blocked,
         RunQueue |-> first.RunQueue,
         Total    |-> first.Total],
     err |-> "none"]

\* getProcAvgStats: (procAvgStats, err); err is always nil.
getProcAvgStats(first, second) ==
    [procAvgStats |->
        [NewProcs |-> NewProcs(first, second),
         Running  |-> second.Running,
         Blocked  |-> second.Blocked,
         RunQueue |-> second.RunQueue,
         Total    |-> second.Total],
     err |-> "none"]

(***************************************************************************)
(* SpecDerive: the four derive operations on samples the caller supplies.  *)
(***************************************************************************)
\* The text of a record: leading tokens, then the numbers of row in decimal.
RowText(prefix, row) ==
    Join(prefix \o [i \in 1..Len(row) |-> ToDigits(row[i])])

\* Counter rows of /proc/stat cpu lines (user nice system idle ...).  A
\* counter of one row is below the same counter of another row only where
\* the totals of the two rows are far apart, which keeps every percentage
\* of the model within the integers TLC computes with.
CpuRows ==
    {<<100, 0, 50, 850>>, <<150, 0, 100, 900>>, <<0, 0, 0, 0>>, <<1, 0, 0, 3999>>,
     <<1, 0, 0, 159>>, <<1, 1>>, <<4, 1, 2, 10, 1, 1, 1, 1, 1, 3>>,
     <<1, 1, 1, 1, 1, 1, 1, 1, 1, 1, 5>>, <<5, 1, 2, 30>>, <<Mod - 1, 1001>>}

CpuRaw(row) == parseCpuRawStats(RowText(<< <<"c", "p", "u">> >>, row)).rawStats

CpuEntityNames == {<<"c", "p", "u">>, <<"c", "p", "u", "0">>, <<"e", "t", "h", "0">>}

CpusSnapshots ==
    {[name \in keys |-> CpuRaw(row)] : keys \in SUBSET CpuEntityNames, row \in CpuRows}

\* Capture times (Unix seconds).
Times == {0, 2, 10, 20}

\* Counter rows of /proc/net/dev lines (rxbytes rxpkts ...).
NetRows ==
    {<<1000, 10>>, <<2000, 20>>, <<0, 0>>,
     <<5, 4, 0, 0, 0, 0, 0, 0, 9, 8, 0, 0, 0, 0, 0, 1>>}

IfaceRaw(row, t) ==
    Put(parseIfaceRawStats(RowText(<< <<"l", "o", ":">> >>, row)).rawStats, "time", t)

IfaceEntityNames == {<<"l", "o">>, <<"e", "t", "h", "0">>, <<"w", "l", "0">>}

NetSnapshots ==
    {[name \in keys |-> IfaceRaw(row, t)] :
        keys \in SUBSET IfaceEntityNames, row \in NetRows, t \in Times}

\* Counter rows of /proc/diskstats lines (the 11 counters after the name).
DiskRows ==
    {<<10, 2, 1000, 5, 4, 1, 8, 3, 1, 7, 9>>,
     <<30, 4, 2000, 9, 8, 3, 16, 5, 2, 11, 19>>,
     <<1, 0, Mod - 1, 0, 0, 0, Mod - 8, 0, 0, 3, 2>>,
     <<1, 0, Mod - 9, 0, 0, 0, Mod - 8, 0, 0, 3, 2>>}

DiskIdentities ==
    {<< <<"8">>, <<"0">>, <<"s", "d", "a">> >>, << <<"8">>, <<"0">>, <<"s", "d", "b">> >>,
     << <<"8">>, <<"1">>, <<"s", "d", "a">> >>, << <<"9">>, <<"0">>, <<"s", "d", "a">> >>}

DiskRaw(identity, row, t) ==
    [parseDiskRawStats(RowText(identity, row)).diskRawStats EXCEPT !.SampleTime = t]

DiskSamples ==
    {DiskRaw(identity, row, t) : identity \in DiskIdentities, row \in DiskRows, t \in Times}

ProcSamples ==
    {[Processes |-> p, Running |-> r, Blocked |-> r - 1, RunQueue |-> r + 1,
      Total |-> 100 + r, Time |-> t] : p \in {5, 25, Mod - 1}, r \in {1, 2}, t \in Times}

InitDerive ==
    /\ stats = Nil /\ parsed = Nil /\ source = Nil /\ now = Nil /\ interval = Nil
    /\ err = "none"
    /\ \/ /\ pc = "cpuDerive"
          /\ firstSample \in CpusSnapshots /\ secondSample \in CpusSnapshots
          /\ pending = DOMAIN secondSample /\ avgStats = EmptyMap
       \/ /\ pc = "netDerive"
          /\ firstSample \in NetSnapshots /\ secondSample \in NetSnapshots
          /\ pending = DOMAIN secondSample /\ avgStats = EmptyMap
       \/ /\ pc = "diskDerive"
          /\ firstSample \in DiskSamples /\ secondSample \in DiskSamples
          /\ pending = {} /\ avgStats = Nil
       \/ /\ pc = "procDerive"
          /\ firstSample \in ProcSamples /\ secondSample \in ProcSamples
          /\ pending = {} /\ avgStats = Nil

\* getCpuAvgStats, one iteration of its range loop; the order is Go's map
\* iteration order, which is unspecified.
CpuRange ==
    /\ pc = "cpuDerive"
    /\ \E cpuName \in pending : CpuRangeStep(cpuName)
    /\ UNCHANGED <<stats, parsed, firstSample, secondSample, source, now, interval>>

\* getCpuAvgStats: `return cpusAvgStats, nil` after the loop.
CpuReturn ==
    /\ pc = "cpuDerive" /\ pending = {}
    /\ pc' = "cpuDerived"
    /\ UNCHANGED <<stats, parsed, firstSample, secondSample, pending, avgStats, err,
                   source, now, interval>>

\* getNetAvgStats, one iteration of its range loop.
NetRange ==
    /\ pc = "netDerive"
    /\ \E ifaceName \in pending : NetRangeStep(ifaceName)
    /\ UNCHANGED <<stats, parsed, firstSample, secondSample, source, now, interval>>

\* getNetAvgStats: `return netAvgStats, nil` after the loop.
NetReturn ==
    /\ pc = "netDerive" /\ pending = {}
    /\ pc' = "netDerived"
    /\ UNCHANGED <<stats, parsed, firstSample, secondSample, pending, avgStats, err,
                   source, now, interval>>

DiskDerive ==
    /\ pc = "diskDerive"
    /\ LET r == getDiskAvgStats(firstSample, secondSample)
       IN  avgStats' = r.diskAvgStats /\ err' = r.err
    /\ pc' = "diskDerived"
    /\ UNCHANGED <<stats, parsed, firstSample, secondSample, pending, source, now, interval>>

ProcDerive ==
    /\ pc = "procDerive"
    /\ LET r == getProcAvgStats(firstSample, secondSample)
       IN  avgStats' = r.procAvgStats /\ err' = r.err
    /\ pc' = "procDerived"
    /\ UNCHANGED <<stats, parsed, firstSample, secondSample, pending, source, now, interval>>

NextDerive ==
    CpuRange \/ CpuReturn \/ NetRange \/ NetReturn \/ DiskDerive \/ ProcDerive

SpecDerive == InitDerive /\ [][NextDerive]_vars

(***************************************************************************)
(* Interval calls: the clock and the counter sources.                      *)
(***************************************************************************)
\* Most lines of a generated counter source.
MaxLines == 2
\* Largest interval argument of a generated call.
MaxInterval == 1
\* The clock read after a sleep is within MaxJitter seconds of the clock
\* before it plus the interval (scheduling delay, clock adjustment).
MaxJitter == 1
\* The clock when a call starts.
StartTime == 10

\* A counter source that was read, with its lines, and one that cannot be
\* opened or read.
File(lines) == [ok |-> TRUE, lines |-> lines]
Unreadable == [ok |-> FALSE, lines |-> <<>>]

SeqsUpTo(S, n) == UNION {[1..len -> S] : len \in 0..n}

\* time.Sleep(interval seconds): the clock a capture reads afterwards.
ClockAfterSleep == {now + interval + j : j \in (0 - MaxJitter)..MaxJitter}

(***************************************************************************)
(* Disk: getDiskRawStats and getDiskStatsInterval.                         *)
(***************************************************************************)
\* Lines of a generated /proc/diskstats: two devices, a device that changes
\* its major number, and a line of 4 fields.
DiskLines ==
    {RowText(<< <<"8">>, <<"0">>, <<"s", "d", "a">> >>, <<10, 2, 1000, 5, 4, 1, 8, 3, 1, 7, 9>>),
     RowText(<< <<"8">>, <<"0">>, <<"s", "d", "a">> >>, <<30, 4, 2000, 9, 8, 3, 16, 5, 2, 11, 19>>),
     RowText(<< <<"8">>, <<"1">>, <<"s", "d", "b">> >>, <<1, 0, 8, 0, 0, 0, 0, 0, 0, 3, 2>>),
     RowText(<< <<"9">>, <<"0">>, <<"s", "d", "a">> >>, <<30, 4, 2000, 9, 8, 3, 16, 5, 2, 11, 19>>),
     RowText(<< <<"8">>, <<"0">>, <<"s", "d", "a">> >>, <<1>>)}

\* parseDiskRawStats of the generated lines, evaluated once for the module.
DiskLinesParsed == [line \in DiskLines |-> parseDiskRawStats(line)]

\* parseDiskRawStats(line).
parseDiskLine(line) ==
    IF line \in DiskLines THEN DiskLinesParsed[line] ELSE parseDiskRawStats(line)

RECURSIVE DiskScanStampEach(_, _, _)
\* DiskScan with the clock read for every record, a second passing between
\* two records.
DiskScanStampEach(lines, t, arr) ==
    IF lines = <<>> THEN [diskRawStatsArr |-> arr, err |-> "none"]
    ELSE LET r == parseDiskLine(Head(lines))
         IN  IF r.err # "none" THEN [diskRawStatsArr |-> arr, err |-> r.err]
             ELSE DiskScanStampEach(Tail(lines), t,
                     Append(arr, [r.diskRawStats EXCEPT !.SampleTime = t + Len(arr)]))

RECURSIVE DiskScan(_, _, _)
\* The scanner loop of getDiskRawStats: a record that does not parse ends
\* it with the samples read so far and the error.
DiskScan(lines, t, arr) ==
    IF lines = <<>> THEN [diskRawStatsArr |-> arr, err |-> "none"]
    ELSE LET r == parseDiskLine(Head(lines))
         IN  IF r.err # "none" THEN [diskRawStatsArr |-> arr, err |-> r.err]
             ELSE DiskScan(Tail(lines), t,
                           Append(arr, [r.diskRawStats EXCEPT !.SampleTime = t]))

\* getDiskRawStats on the contents file of /proc/diskstats, read at time t.
getDiskRawStats(file, t) ==
    IF ~file.ok THEN [diskRawStatsArr |-> <<>>, err |-> "io"]
    ELSE DiskScan(file.lines, t, <<>>)

RECURSIVE FindByName(_, _)
\* The inner loop of getDiskStatsInterval: the first sample of arr with the
\* name diskName, Nil when there is none.
FindByName(arr, diskName) ==
    IF arr = <<>> THEN Nil
    ELSE IF Head(arr).Name = diskName THEN Head(arr)
    ELSE FindByName(Tail(arr), diskName)

RECURSIVE DiskPairLoop(_, _, _)
\* The outer loop of getDiskStatsInterval, over the samples of the first
\* capture: a sample without a sample of the same name in the second capture
\* is passed over.
DiskPairLoop(firstSampleArr, secondSampleArr, acc) ==
    IF firstSampleArr = <<>> THEN [diskAvgStatsArr |-> acc, err |-> "none"]
    ELSE LET match == FindByName(secondSampleArr, Head(firstSampleArr).Name)
         IN  IF match = Nil
             THEN DiskPairLoop(Tail(firstSampleArr), secondSampleArr, acc)
             ELSE LET r == getDiskAvgStats(Head(firstSampleArr), match)
                  IN  IF r.err # "none" THEN [diskAvgStatsArr |-> Nil, err |-> r.err]
                      ELSE DiskPairLoop(Tail(firstSampleArr), secondSampleArr,
                                        Append(acc, r.diskAvgStats))

DiskFiles == {File(lines) : lines \in SeqsUpTo(DiskLines, MaxLines)} \cup {Unreadable}

InitDiskInterval ==
    /\ pc = "diskStart"
    /\ stats = Nil /\ parsed = Nil
    /\ firstSample = <<>> /\ secondSample = <<>> /\ pending = {}
    /\ avgStats = <<>> /\ err = "none"
    /\ source \in [first : DiskFiles, second : DiskFiles]
    /\ now = StartTime
    /\ interval \in 0..MaxInterval

\* getDiskStatsInterval up to the sleep: the first capture, then
\* make([]DiskAvgStats, 0, len(firstSampleArr)-1), which panics when the
\* capacity is negative.
DiskFirstCapture ==
    /\ pc = "diskStart"
    /\ LET r == getDiskRawStats(source.first, now)
       IN  IF r.err # "none"
           THEN /\ avgStats' = Nil /\ err' = r.err /\ pc' = "diskReturned"
                /\ UNCHANGED firstSample
           ELSE /\ firstSample' = r.diskRawStatsArr
                /\ IF Len(r.diskRawStatsArr) - 1 < 0
                   THEN pc' = "diskPanic" /\ UNCHANGED avgStats
                   ELSE pc' = "diskSleep" /\ avgStats' = <<>>
                /\ UNCHANGED err
    /\ UNCHANGED <<stats, parsed, secondSample, pending, source, now, interval>>

DiskSleep ==
    /\ pc = "diskSleep"
    /\ now' \in ClockAfterSleep
    /\ pc' = "diskSecond"
    /\ UNCHANGED <<stats, parsed, firstSample, secondSample, pending, avgStats, err,
                   source, interval>>

DiskSecondCapture ==
    /\ pc = "diskSecond"
    /\ LET r == getDiskRawStats(source.second, now)
       IN  IF r.err # "none"
           THEN /\ avgStats' = Nil /\ err' = r.err /\ pc' = "diskReturned"
                /\ UNCHANGED secondSample
           ELSE /\ secondSample' = r.diskRawStatsArr /\ pc' = "diskPair"
                /\ UNCHANGED <<avgStats, err>>
    /\ UNCHANGED <<stats, parsed, firstSample, pending, source, now, interval>>

DiskPairs ==
    /\ pc = "diskPair"
    /\ LET r == DiskPairLoop(firstSample, secondSample, avgStats)
       IN  avgStats' = r.diskAvgStatsArr /\ err' = r.err
    /\ pc' = "diskReturned"
    /\ UNCHANGED <<stats, parsed, firstSample, secondSample, pending, source, now, interval>>

NextDiskInterval == DiskFirstCapture \/ DiskSleep \/ DiskSecondCapture \/ DiskPairs

SpecDiskInterval == InitDiskInterval /\ [][NextDiskInterval]_vars

(***************************************************************************)
(* Process: getProcRawStats and getProcStatsInterval.                      *)
(***************************************************************************)
\* The words the three patterns of getProcRawStats begin with.
WordProcesses == <<"p", "r", "o", "c", "e", "s", "s", "e", "s">>
WordProcsRunning ==
    <<"p", "r", "o", "c", "s", "_", "r", "u", "n", "n", "i", "n", "g">>
WordProcsBlocked ==
    <<"p", "r", "o", "c", "s", "_", "b", "l", "o", "c", "k", "e", "d">>

RECURSIVE SplitFrom(_, _, _)
\* strings.Split(s, "/"): the parts between the slashes, empty parts kept.
SplitFrom(s, cur, acc) ==
    IF s = <<>> THEN Append(acc, cur)
    ELSE IF Head(s) = "/" THEN SplitFrom(Tail(s), <<>>, Append(acc, cur))
    ELSE SplitFrom(Tail(s), Append(cur, Head(s)), acc)

Split(s) == SplitFrom(s, <<>>, <<>>)

RECURSIVE DropSpaces(_)
DropSpaces(s) == IF s # <<>> /\ IsSpace(Head(s)) THEN DropSpaces(Tail(s)) ELSE s

RECURSIVE TakeDigits(_)
TakeDigits(s) ==
    IF s # <<>> /\ IsDigit(Head(s)) THEN <<Head(s)>> \o TakeDigits(Tail(s)) ELSE <<>>

\* FindStringSubmatch of `^word\s+(\d+)`: the digits captured, the empty
\* text when the line does not match.
MatchCounter(line, word) ==
    IF Len(line) > Len(word) /\ SubSeq(line, 1, Len(word)) = word
    THEN LET rest  == SubSeq(line, Len(word) + 1, Len(line))
             after == DropSpaces(rest)
         IN  IF after # rest THEN TakeDigits(after) ELSE <<>>
    ELSE <<>>

\* ProcRawStats{}: the zero value of the struct.
ZeroProcRawStats ==
    [Processes |-> 0, Running |-> 0, Blocked |-> 0, RunQueue |-> 0, Total |-> 0, Time |-> 0]

RECURSIVE ProcScan(_, _)
\* The scanner loop of getProcRawStats over the lines of /proc/stat.
ProcScan(lines, procRawStats) ==
    IF lines = <<>> THEN [procRawStats |-> procRawStats, err |-> "none"]
    ELSE LET line    == Head(lines)
             procs   == MatchCounter(line, WordProcesses)
             running == MatchCounter(line, WordProcsRunning)
             blocked == MatchCounter(line, WordProcsBlocked)
             field   == IF procs # <<>> THEN "Processes"
                        ELSE IF running # <<>> THEN "Running"
                        ELSE IF blocked # <<>> THEN "Blocked" ELSE "none"
             digits  == IF procs # <<>> THEN procs
                        ELSE IF running # <<>> THEN running ELSE blocked
         IN  IF field = "none" THEN ProcScan(Tail(lines), procRawStats)
             ELSE LET p == ParseUint(digits)
                  IN  IF p.err # "none"
                      THEN [procRawStats |-> ZeroProcRawStats, err |-> p.err]
                      ELSE ProcScan(Tail(lines), [procRawStats EXCEPT ![field] = p.val])

\* getProcRawStats on the contents of /proc/loadavg and /proc/stat, read at
\* time t.  The errors of the two ParseUint calls on the fourth field are
\* overwritten unread; fourthField[1] of a field without '/' is an index out
\* of range, which aborts the process.
getProcRawStats(files, t) ==
    IF ~files.loadavg.ok THEN [procRawStats |-> ZeroProcRawStats, err |-> "io"]
    ELSE LET fields == Fields(Join(files.loadavg.lines))
         IN  IF Len(fields) # 5
             THEN [procRawStats |-> ZeroProcRawStats, err |-> "fields"]
             ELSE LET fourthField == Split(fields[4])
                  IN  IF Len(fourthField) < 2
                      THEN [procRawStats |-> ZeroProcRawStats, err |-> "panic"]
                      ELSE IF ~files.stat.ok
                      THEN [procRawStats |-> ZeroProcRawStats, err |-> "io"]
                      ELSE ProcScan(files.stat.lines,
                                    [ZeroProcRawStats EXCEPT
                                        !.Time = t,
                                        !.RunQueue = ParseUint(fourthField[1]).val,
                                        !.Total = ParseUint(fourthField[2]).val])

\* Contents of a generated /proc/loadavg: five fields with a fourth field
\* that has one '/', none, two, or parts that are no numbers; four fields.
LoadAvgFourth ==
    {<<"3", "/", "1", "2", "0">>, <<"3">>, <<"x", "/", "1", "2", "0">>,
     <<"3", "/", "y">>, <<"3", "/", "1", "2", "0", "/", "5">>}

LoadAvgFiles ==
    {File(<< Join(<< <<"0", ".", "1">>, <<"0", ".", "1">>, <<"0", ".", "1">>, fourth,
                     <<"9", "9">> >>) >>) : fourth \in LoadAvgFourth}
        \cup {File(<< Join(<< <<"0", ".", "1">>, <<"0", ".", "1">>,
                              <<"3", "/", "1", "2", "0">>, <<"9", "9">> >>) >>),
              Unreadable}

\* Contents of a generated /proc/stat.
StatLine(word, digits) == word \o <<" ">> \o digits

StatFiles ==
    {File(<< RowText(<< <<"c", "p", "u">> >>, <<1, 2, 3, 4>>), StatLine(WordProcesses, ToDigits(p)),
        StatLine(WordProcsRunning, <<"2">>), StatLine(WordProcsBlocked, <<"1">>) >>) :
        p \in {5, 25, Mod}}
        \cup {File(<< StatLine(WordProcesses, <<"x">>) >>), Unreadable}

ProcFiles == [loadavg : LoadAvgFiles, stat : StatFiles]

InitProcInterval ==
    /\ pc = "procStart"
    /\ stats = Nil /\ parsed = Nil
    /\ firstSample = Nil /\ secondSample = Nil /\ pending = {}
    /\ avgStats = Nil /\ err = "none"
    /\ source \in [first : ProcFiles, second : ProcFiles]
    /\ now = StartTime
    /\ interval \in 0..MaxInterval

ProcFirstCapture ==
    /\ pc = "procStart"
    /\ LET r == getProcRawStats(source.first, now)
       IN  IF r.err = "panic" THEN pc' = "procPanic" /\ UNCHANGED <<firstSample, avgStats, err>>
           ELSE IF r.err # "none"
           THEN /\ avgStats' = Nil /\ err' = r.err /\ pc' = "procReturned"
                /\ UNCHANGED firstSample
           ELSE /\ firstSample' = r.procRawStats /\ pc' = "procSleep"
                /\ UNCHANGED <<avgStats, err>>
    /\ UNCHANGED <<stats, parsed, secondSample, pending, source, now, interval>>

ProcSleep ==
    /\ pc = "procSleep"
    /\ now' \in ClockAfterSleep
    /\ pc' = "procSecond"
    /\ UNCHANGED <<stats, parsed, firstSample, secondSample, pending, avgStats, err,
                   source, interval>>

ProcSecondCapture ==
    /\ pc = "procSecond"
    /\ LET r == getProcRawStats(source.second, now)
       IN  IF r.err = "panic" THEN pc' = "procPanic" /\ UNCHANGED <<secondSample, avgStats, err>>
           ELSE IF r.err # "none"
           THEN /\ avgStats' = Nil /\ err' = r.err /\ pc' = "procReturned"
                /\ UNCHANGED secondSample
           ELSE /\ secondSample' = r.procRawStats /\ pc' = "procPair"
                /\ UNCHANGED <<avgStats, err>>
    /\ UNCHANGED <<stats, parsed, firstSample, pending, source, now, interval>>

ProcPair ==
    /\ pc = "procPair"
    /\ LET r == getProcAvgStats(firstSample, secondSample)
       IN  avgStats' = r.procAvgStats /\ err' = r.err
    /\ pc' = "procReturned"
    /\ UNCHANGED <<stats, parsed, firstSample, secondSample, pending, source, now, interval>>

NextProcInterval == ProcFirstCapture \/ ProcSleep \/ ProcSecondCapture \/ ProcPair

SpecProcInterval == InitProcInterval /\ [][NextProcInterval]_vars

(***************************************************************************)
(* Network: getNetRawStats and getNetStatsInterval.                        *)
(***************************************************************************)
\* re.FindString(line) for `^\s*(.+?):\s*(.*)`: the whole line when a ':'
\* comes after at least one character, the empty text otherwise.
FindIfaceStats(line) ==
    IF \E i \in 2..Len(line) : line[i] = ":" THEN line ELSE <<>>

RECURSIVE NetScan(_, _, _)
\* The scanner loop of getNetRawStats: a line without a match is passed
\* over, a record that does not parse ends the call with its error, a later
\* record of a name replaces an earlier one.
NetScan(lines, t, netRawStats) ==
    IF lines = <<>> THEN [netRawStats |-> netRawStats, err |-> "none"]
    ELSE LET found == FindIfaceStats(Head(lines))
         IN  IF found = <<>> THEN NetScan(Tail(lines), t, netRawStats)
             ELSE LET r == parseIfaceRawStats(found)
                  IN  IF r.err # "none" THEN [netRawStats |-> Nil, err |-> r.err]
                      ELSE NetScan(Tail(lines), t,
                                   Put(netRawStats, r.ifaceName,
                                       Put(r.rawStats, "time", t % Mod)))

\* getNetRawStats on the contents file of /proc/net/dev, read at time t.
getNetRawStats(file, t) ==
    IF ~file.ok THEN [netRawStats |-> Nil, err |-> "io"]
    ELSE NetScan(file.lines, t, EmptyMap)

\* Lines of a generated /proc/net/dev: a header line, an interface at two
\* readings (the second with leading blanks), an interface whose first
\* counter follows the ':' without a blank, and a counter that is no number.
NetLines ==
    {<<" ", "f", "a", "c", "e", " ", "|", "b", "y", "t", "e", "s">>,
     RowText(<< <<"l", "o", ":">> >>, <<1000, 10>>),
     <<" ", " ">> \o RowText(<< <<"l", "o", ":">> >>, <<2000, 20>>),
     RowText(<< <<"e", "t", "h", "0", ":", "3", "0", "0", "0">> >>, <<30>>),
     RowText(<< <<"w", "l", "0", ":">>, <<"x">> >>, <<>>)}

NetFiles == {File(lines) : lines \in SeqsUpTo(NetLines, MaxLines)} \cup {Unreadable}

InitNetInterval ==
    /\ pc = "netStart"
    /\ stats = Nil /\ parsed = Nil
    /\ firstSample = EmptyMap /\ secondSample = EmptyMap /\ pending = {}
    /\ avgStats = EmptyMap /\ err = "none"
    /\ source \in [first : NetFiles, second : NetFiles]
    /\ now = StartTime
    /\ interval \in 0..MaxInterval

\* NetFirstCapture without the test of err: a capture that failed is taken
\* for an empty snapshot and the call goes on.
NetFirstCaptureUnchecked ==
    /\ pc = "netStart"
    /\ LET r == getNetRawStats(source.first, now)
       IN  firstSample' = IF r.err # "none" THEN EmptyMap ELSE r.netRawStats
    /\ pc' = "netSleep"
    /\ UNCHANGED <<stats, parsed, secondSample, pending, avgStats, err, source, now,
                   interval>>

\* getNetStatsInterval: the first capture.
NetFirstCapture ==
    /\ pc = "netStart"
    /\ LET r == getNetRawStats(source.first, now)
       IN  IF r.err # "none"
           THEN /\ avgStats' = Nil /\ err' = r.err /\ pc' = "netReturned"
                /\ UNCHANGED firstSample
           ELSE /\ firstSample' = r.netRawStats /\ pc' = "netSleep"
                /\ UNCHANGED <<avgStats, err>>
    /\ UNCHANGED <<stats, parsed, secondSample, pending, source, now, interval>>

NetSleep ==
    /\ pc = "netSleep"
    /\ now' \in ClockAfterSleep
    /\ pc' = "netSecond"
    /\ UNCHANGED <<stats, parsed, firstSample, secondSample, pending, avgStats, err,
                   source, interval>>

\* getNetStatsInterval: the second capture, then the call of getNetAvgStats.
NetSecondCapture ==
    /\ pc = "netSecond"
    /\ LET r == getNetRawStats(source.second, now)
       IN  IF r.err # "none"
           THEN /\ avgStats' = Nil /\ err' = r.err /\ pc' = "netReturned"
                /\ UNCHANGED <<secondSample, pending>>
           ELSE /\ secondSample' = r.netRawStats /\ pending' = DOMAIN r.netRawStats
                /\ pc' = "netDerive"
                /\ UNCHANGED <<avgStats, err>>
    /\ UNCHANGED <<stats, parsed, firstSample, source, now, interval>>

\* getNetStatsInterval: the result of getNetAvgStats is the result of the call.
NetIntervalReturn ==
    /\ pc = "netDerived"
    /\ pc' = "netReturned"
    /\ UNCHANGED <<stats, parsed, firstSample, secondSample, pending, avgStats, err,
                   source, now, interval>>

NextNetInterval ==
    NetFirstCapture \/ NetSleep \/ NetSecondCapture \/ NetRange \/ NetReturn
        \/ NetIntervalReturn

SpecNetInterval == InitNetInterval /\ [][NextNetInterval]_vars

(***************************************************************************)
(* CPU: getCpuRawStats and getCpuStatsInterval.                            *)
(***************************************************************************)
RECURSIVE CpuScanSkip(_, _)
\* CpuScan with `continue` in place of `break`: a line that does not match
\* is passed over and the scan goes on.
CpuScanSkip(lines, cpusRawStats) ==
    IF lines = <<>> THEN [cpusRawStats |-> cpusRawStats, err |-> "none"]
    ELSE IF ~MatchesCpu(Head(lines)) THEN CpuScanSkip(Tail(lines), cpusRawStats)
    ELSE LET r == parseCpuRawStats(Head(lines))
         IN  IF r.err # "none" THEN [cpusRawStats |-> Nil, err |-> r.err]
             ELSE CpuScanSkip(Tail(lines), Put(cpusRawStats, r.cpuName, r.rawStats))

RECURSIVE CpuScan(_, _)
\* The scanner loop of getCpuRawStats: the first line `^cpu.*$` does not
\* match ends the loop, a record that does not parse ends the call with its
\* error, a later record of a name replaces an earlier one.
CpuScan(lines, cpusRawStats) ==
    IF lines = <<>> THEN [cpusRawStats |-> cpusRawStats, err |-> "none"]
    ELSE IF ~MatchesCpu(Head(lines)) THEN [cpusRawStats |-> cpusRawStats, err |-> "none"]
    ELSE LET r == parseCpuRawStats(Head(lines))
         IN  IF r.err # "none" THEN [cpusRawStats |-> Nil, err |-> r.err]
             ELSE CpuScan(Tail(lines), Put(cpusRawStats, r.cpuName, r.rawStats))

\* getCpuRawStats on the contents file of /proc/stat.
getCpuRawStats(file) ==
    IF ~file.ok THEN [cpusRawStats |-> Nil, err |-> "io"]
    ELSE CpuScan(file.lines, EmptyMap)

\* Lines of a generated /proc/stat: the aggregate cpu at two readings, one
\* core, a line of another kind, and a counter that is no number.
CpuLines ==
    {RowText(<< <<"c", "p", "u">> >>, <<100, 0, 50, 850>>),
     RowText(<< <<"c", "p", "u">> >>, <<150, 0, 100, 900>>),
     RowText(<< <<"c", "p", "u", "0">> >>, <<1, 0, 0, 159>>),
     RowText(<< <<"i", "n", "t", "r">> >>, <<5>>),
     RowText(<< <<"c", "p", "u", "1">>, <<"x">> >>, <<>>)}

CpuFiles == {File(lines) : lines \in SeqsUpTo(CpuLines, MaxLines)} \cup {Unreadable}

InitCpuInterval ==
    /\ pc = "cpuStart"
    /\ stats = Nil /\ parsed = Nil
    /\ firstSample = EmptyMap /\ secondSample = EmptyMap /\ pending = {}
    /\ avgStats = EmptyMap /\ err = "none"
    /\ source \in [first : CpuFiles, second : CpuFiles]
    /\ now = StartTime
    /\ interval \in 0..MaxInterval

\* getCpuStatsInterval: the first capture.
CpuFirstCapture ==
    /\ pc = "cpuStart"
    /\ LET r == getCpuRawStats(source.first)
       IN  IF r.err # "none"
           THEN /\ avgStats' = Nil /\ err' = r.err /\ pc' = "cpuReturned"
                /\ UNCHANGED firstSample
           ELSE /\ firstSample' = r.cpusRawStats /\ pc' = "cpuSleep"
                /\ UNCHANGED <<avgStats, err>>
    /\ UNCHANGED <<stats, parsed, secondSample, pending, source, now, interval>>

CpuSleep ==
    /\ pc = "cpuSleep"
    /\ now' \in ClockAfterSleep
    /\ pc' = "cpuSecond"
    /\ UNCHANGED <<stats, parsed, firstSample, secondSample, pending, avgStats, err,
                   source, interval>>

\* getCpuStatsInterval: the second capture, then the call of getCpuAvgStats.
CpuSecondCapture ==
    /\ pc = "cpuSecond"
    /\ LET r == getCpuRawStats(source.second)
       IN  IF r.err # "none"
           THEN /\ avgStats' = Nil /\ err' = r.err /\ pc' = "cpuReturned"
                /\ UNCHANGED <<secondSample, pending>>
           ELSE /\ secondSample' = r.cpusRawStats /\ pending' = DOMAIN r.cpusRawStats
                /\ pc' = "cpuDerive"
                /\ UNCHANGED <<avgStats, err>>
    /\ UNCHANGED <<stats, parsed, firstSample, source, now, interval>>

\* getCpuStatsInterval: the result of getCpuAvgStats is the result of the call.
CpuIntervalReturn ==
    /\ pc = "cpuDerived"
    /\ pc' = "cpuReturned"
    /\ UNCHANGED <<stats, parsed, firstSample, secondSample, pending, avgStats, err,
                   source, now, interval>>

NextCpuInterval ==
    CpuFirstCapture \/ CpuSleep \/ CpuSecondCapture \/ CpuRange \/ CpuReturn
        \/ CpuIntervalReturn

SpecCpuInterval == InitCpuInterval /\ [][NextCpuInterval]_vars

(***************************************************************************)
(* The derive calls and the interval calls together.                       *)
(***************************************************************************)
InitCalls == InitDerive \/ InitCpuInterval \/ InitNetInterval \/ InitDiskInterval

NextCalls == NextDerive \/ NextCpuInterval \/ NextNetInterval \/ NextDiskInterval

SpecCalls == InitCalls /\ [][NextCalls]_vars

(***************************************************************************)
(* The interval calls of the four domains together.                        *)
(***************************************************************************)
InitIntervals ==
    InitCpuInterval \/ InitNetInterval \/ InitDiskInterval \/ InitProcInterval

NextIntervals ==
    NextCpuInterval \/ NextNetInterval \/ NextDiskInterval \/ NextProcInterval

SpecIntervals == InitIntervals /\ [][NextIntervals]_vars

(***************************************************************************)
(* Concurrent interval calls of the network and disk domains.  Every       *)
(* variable of a call is a function of the call; the clock and the counter *)
(* sources are what the calls share.                                       *)
(***************************************************************************)
\* The number of calls that run concurrently.
NumCalls == 2
\* The number of times the clock, and the counters with it, advance.
MaxTicks == 2

Calls == 1..NumCalls

\* /proc/net/dev at the time t: the counters of lo grow with the time, and
\* a second interface is there from the second tick on.
NetFileAt(t) ==
    LET k == t - StartTime
    IN  File(<< RowText(<< <<"l", "o", ":">> >>, <<1000 * (k + 1), 10 * (k + 1)>>) >>
             \o IF k >= 2 THEN << RowText(<< <<"e", "t", "h", "0", ":">> >>, <<5, 1>>) >>
                ELSE << >>)

\* /proc/diskstats at the time t: sda at its first reading, at its second
\* reading from the first tick on, and sdb from the second tick on.
DiskFileAt(t) ==
    LET k == t - StartTime
    IN  File(<< IF k = 0
                THEN RowText(<< <<"8">>, <<"0">>, <<"s", "d", "a">> >>,
                             <<10, 2, 1000, 5, 4, 1, 8, 3, 1, 7, 9>>)
                ELSE RowText(<< <<"8">>, <<"0">>, <<"s", "d", "a">> >>,
                             <<30, 4, 2000, 9, 8, 3, 16, 5, 2, 11, 19>>) >>
             \o IF k >= 2
                THEN << RowText(<< <<"8">>, <<"1">>, <<"s", "d", "b">> >>,
                                <<1, 0, 8, 0, 0, 0, 0, 0, 0, 3, 2>>) >>
                ELSE << >>)

\* The capture of a call of the domain kind at the time t.
Capture(kind, t) ==
    IF kind = "net"
    THEN LET r == getNetRawStats(NetFileAt(t), t)
         IN  [sample |-> r.netRawStats, err |-> r.err]
    ELSE LET r == getDiskRawStats(DiskFileAt(t), t)
         IN  [sample |-> r.diskRawStatsArr, err |-> r.err]

\* The derive step of a call of the domain kind.
Derive(kind, first, second) ==
    IF kind = "net"
    THEN LET r == getNetAvgStats(first, second)
         IN  [avgStats |-> r.netAvgStats, err |-> r.err]
    ELSE LET r == DiskPairLoop(first, second, <<>>)
         IN  [avgStats |-> r.diskAvgStatsArr, err |-> r.err]

\* parsed[c] is the history of call c: the times of the captures it made.
\* The calls are alike, so the network calls are given the lower numbers;
\* a call has the shortest or the longest interval.
InitConcurrent ==
    /\ pc = [c \in Calls |-> "concStart"]
    /\ source \in {kind \in [Calls -> {"net", "disk"}] :
                      \A c, d \in Calls : (c < d /\ kind[c] = "disk") => kind[d] = "disk"}
    /\ interval \in [Calls -> {0, MaxInterval}]
    /\ now = StartTime
    /\ stats = Nil
    /\ parsed = [c \in Calls |-> <<>>]
    /\ firstSample = [c \in Calls |-> Nil]
    /\ secondSample = [c \in Calls |-> Nil]
    /\ avgStats = [c \in Calls |-> Nil]
    /\ err = [c \in Calls |-> "none"]
    /\ pending = {}

\* The clock advances by a second, and the counters with it.
Tick ==
    /\ now < StartTime + MaxTicks
    /\ now' = now + 1
    /\ UNCHANGED <<pc, stats, parsed, firstSample, secondSample, pending, avgStats, err,
                   source, interval>>

\* The first capture of call c; for a disk call the make of the result
\* follows, which aborts on an empty capture.
ConcFirstCapture(c) ==
    /\ pc[c] = "concStart"
    /\ LET r == Capture(source[c], now)
       IN  IF r.err # "none"
           THEN /\ err' = [err EXCEPT ![c] = r.err]
                /\ pc' = [pc EXCEPT ![c] = "concReturned"]
                /\ UNCHANGED firstSample
           ELSE /\ firstSample' = [firstSample EXCEPT ![c] = r.sample]
                /\ pc' = [pc EXCEPT ![c] =
                              IF source[c] = "disk" /\ Len(r.sample) - 1 < 0
                              THEN "concPanic" ELSE "concSleep"]
                /\ UNCHANGED err
    /\ parsed' = [parsed EXCEPT ![c] = Append(@, now)]
    /\ UNCHANGED <<stats, secondSample, pending, avgStats, source, now, interval>>

\* The sleep of call c has ended: the clock is interval[c] seconds or more
\* after the first capture.
ConcSleep(c) ==
    /\ pc[c] = "concSleep"
    /\ now >= parsed[c][1] + interval[c]
    /\ pc' = [pc EXCEPT ![c] = "concSecond"]
    /\ UNCHANGED <<stats, parsed, firstSample, secondSample, pending, avgStats, err,
                   source, now, interval>>

\* ConcSecondCapture with one snapshot variable of the package for a domain
\* in place of the local variable: the second snapshot of every call of the
\* domain is written.
ConcSecondCaptureShared(c) ==
    /\ pc[c] = "concSecond"
    /\ LET r == Capture(source[c], now)
       IN  IF r.err # "none"
           THEN /\ err' = [err EXCEPT ![c] = r.err]
                /\ pc' = [pc EXCEPT ![c] = "concReturned"]
                /\ UNCHANGED secondSample
           ELSE /\ secondSample' = [d \in Calls |-> IF source[d] = source[c] THEN r.sample
                                                  ELSE secondSample[d]]
                /\ pc' = [pc EXCEPT ![c] = "concDerive"]
                /\ UNCHANGED err
    /\ parsed' = [parsed EXCEPT ![c] = Append(@, now)]
    /\ UNCHANGED <<stats, firstSample, pending, avgStats, source, now, interval>>

\* The second capture of call c.
ConcSecondCapture(c) ==
    /\ pc[c] = "concSecond"
    /\ LET r == Capture(source[c], now)
       IN  IF r.err # "none"
           THEN /\ err' = [err EXCEPT ![c] = r.err]
                /\ pc' = [pc EXCEPT ![c] = "concReturned"]
                /\ UNCHANGED secondSample
           ELSE /\ secondSample' = [secondSample EXCEPT ![c] = r.sample]
                /\ pc' = [pc EXCEPT ![c] = "concDerive"]
                /\ UNCHANGED err
    /\ parsed' = [parsed EXCEPT ![c] = Append(@, now)]
    /\ UNCHANGED <<stats, firstSample, pending, avgStats, source, now, interval>>

\* The derive of call c on its two snapshots, and the return of the call.
ConcDerive(c) ==
    /\ pc[c] = "concDerive"
    /\ LET r == Derive(source[c], firstSample[c], secondSample[c])
       IN  /\ avgStats' = [avgStats EXCEPT ![c] = r.avgStats]
           /\ err' = [err EXCEPT ![c] = r.err]
    /\ pc' = [pc EXCEPT ![c] = "concReturned"]
    /\ UNCHANGED <<stats, parsed, firstSample, secondSample, pending, source, now,
                   interval>>

NextConcurrent ==
    \/ Tick
    \/ \E c \in Calls : ConcFirstCapture(c)
    \/ \E c \in Calls : ConcSleep(c)
    \/ \E c \in Calls : ConcSecondCapture(c)
    \/ \E c \in Calls : ConcDerive(c)

SpecConcurrent == InitConcurrent /\ [][NextConcurrent]_vars

(***************************************************************************)
(* The capture calls: GetCpuRawStats, GetNetRawStats, GetDiskRawStats.     *)
(* firstSample is the snapshot the call returns, err its error.            *)
(***************************************************************************)
InitCapture ==
    /\ stats = Nil /\ parsed = Nil /\ interval = Nil
    /\ firstSample = Nil /\ secondSample = Nil /\ avgStats = Nil
    /\ pending = {} /\ err = "none"
    /\ now = StartTime
    /\ \/ pc = "cpuCapture" /\ source \in CpuFiles
       \/ pc = "netCapture" /\ source \in NetFiles
       \/ pc = "diskCapture" /\ source \in DiskFiles

\* GetCpuRawStats: `return getCpuRawStats()`.
GetCpuRawStats ==
    /\ pc = "cpuCapture"
    /\ LET r == getCpuRawStats(source)
       IN  firstSample' = r.cpusRawStats /\ err' = r.err
    /\ pc' = "cpuCaptured"
    /\ UNCHANGED <<stats, parsed, secondSample, pending, avgStats, source, now, interval>>

\* GetNetRawStats: `return getNetRawStats()`.
GetNetRawStats ==
    /\ pc = "netCapture"
    /\ LET r == getNetRawStats(source, now)
       IN  firstSample' = r.netRawStats /\ err' = r.err
    /\ pc' = "netCaptured"
    /\ UNCHANGED <<stats, parsed, secondSample, pending, avgStats, source, now, interval>>

\* GetDiskRawStats: `return getDiskRawStats()`.
GetDiskRawStats ==
    /\ pc = "diskCapture"
    /\ LET r == getDiskRawStats(source, now)
       IN  firstSample' = r.diskRawStatsArr /\ err' = r.err
    /\ pc' = "diskCaptured"
    /\ UNCHANGED <<stats, parsed, secondSample, pending, avgStats, source, now, interval>>

NextCapture == GetCpuRawStats \/ GetNetRawStats \/ GetDiskRawStats

SpecCapture == InitCapture /\ [][NextCapture]_vars

(***************************************************************************)
(* Properties of the record parsers (SpecParse).                           *)
(***************************************************************************)
RECURSIVE SumOver(_, _)
\* The sum of the values a map stores under the keys of a sequence.
SumOver(m, keys) ==
    IF keys = <<>> THEN 0 ELSE Get(m, Head(keys)) + SumOver(m, Tail(keys))

\* The fields of the record after its first n fields.
FieldsAfter(n) == LET f == Fields(stats) IN SubSeq(f, n + 1, Len(f))

SomeFieldUnparseable(fields) ==
    \E i \in 1..Len(fields) : ParseUint(fields[i]).err # "none"

\* C3: a cpu record that parses has `total` equal to the sum of the ten
\* per-mode fields stored in the sample (the sum of uint64 counters, taken
\* in uint64 as the counters are).
C3_TotalIsSumOfStored ==
    (pc = "cpuParsed" /\ parsed.err = "none")
        => Get(parsed.rawStats, "total") = SumOver(parsed.rawStats, CpuKeys) % Mod

\* C7: a record whose field count is not the domain's count (10 numeric
\* fields for cpu, 16 for network, 14 fields for disk) is refused.
C7_WrongFieldCountFails ==
    /\ (pc = "cpuParsed" /\ Len(FieldsAfter(1)) # Len(CpuKeys)) => parsed.err # "none"
    /\ (pc = "ifaceParsed" /\ Len(FieldsAfter(1)) # Len(NetKeys)) => parsed.err # "none"
    /\ (pc = "diskParsed" /\ Len(Fields(stats)) # DiskFieldCount) => parsed.err # "none"

\* C8: a record with a numeric field that is no unsigned integer is refused
\* by the parser of each domain.
C8_UnparseableFieldFails ==
    /\ (pc \in {"cpuParsed", "ifaceParsed"} /\ SomeFieldUnparseable(FieldsAfter(1)))
           => parsed.err # "none"
    /\ (pc = "diskParsed" /\ SomeFieldUnparseable(FieldsAfter(3)))
           => parsed.err # "none"

(***************************************************************************)
(* Properties of derive (SpecDerive).                                      *)
(***************************************************************************)
SomeKeyMissing == \E key \in DOMAIN secondSample : key \notin DOMAIN firstSample

\* C1 as stated: with a key of the second snapshot absent from the first,
\* cpu and network derive return the missing-entity error and no snapshot.
C1_MissingAlwaysMissingEntity ==
    (pc \in {"cpuDerived", "netDerived"} /\ SomeKeyMissing)
        => (err = "missing" /\ avgStats = Nil)

\* C1 amended: with a key of the second snapshot absent from the first, cpu
\* and network derive fail and return no snapshot, whatever the order; the
\* error is the missing-entity error, except that cpu derive returns its
\* name-pattern error when it visits a key not beginning with `cpu` first.
C1_MissingKeyFails ==
    (pc \in {"cpuDerived", "netDerived"} /\ SomeKeyMissing)
        => /\ avgStats = Nil
           /\ \/ err = "missing"
              \/ /\ pc = "cpuDerived" /\ err = "pattern"
                 /\ \E key \in DOMAIN secondSample : ~MatchesCpu(key)

\* A derive that failed on a missing key after it had derived another entity.
C1_Witness ==
    /\ pc \in {"cpuDerived", "netDerived"} /\ SomeKeyMissing
    /\ err = "missing" /\ avgStats = Nil
    /\ pending # DOMAIN secondSample

CounterRates == {"ReadIOs", "ReadMerges", "ReadBytes", "WriteIOs", "WriteMerges", "WriteBytes"}

\* C6: derive(S, S) yields the rate zero for every counter field of every
\* entity (cpu, network, disk) and 0 new processes per second.
C6_SameSnapshotZeroRates ==
    firstSample = secondSample =>
        /\ (pc \in {"cpuDerived", "netDerived"} /\ err = "none") =>
               \A name \in DOMAIN avgStats :
                   \A key \in DOMAIN avgStats[name] \ {"total"} :
                       avgStats[name][key] = Zero
        /\ (pc = "diskDerived") =>
               (err = "none" /\ \A key \in CounterRates : avgStats[key] = Zero)
        /\ (pc = "procDerived") => avgStats.NewProcs = Zero

\* The hundredths of a float64 that is a whole number of hundredths.
Hundredths(x) == x.n * (100 \div x.d)

\* x is n/d rounded to a nearest hundredth, n >= 0 and d > 0.
NearestHundredth(x, n, d) ==
    /\ x.k = "num" /\ 100 % x.d = 0
    /\ LET whole == n \div d
           frac  == n % d
           below == 100 * whole + (100 * frac) \div d
           rest  == (100 * frac) % d
       IN  \/ Hundredths(x) = below /\ 2 * rest <= d
           \/ Hundredths(x) = below + 1 /\ 2 * rest >= d

\* C9: every per-mode rate of cpu derive is (second[field] - first[field]) *
\* 100 / (second.total - first.total) rounded to 2 decimals, the differences
\* being the uint64 differences (NaN or +Inf when the tick delta is 0); the
\* samples 100/0/50/850 and 150/0/100/900 give 33.33 for user, system, idle.
C9_CpuRateFormula ==
    (pc \in {"cpuDerive", "cpuDerived"} /\ avgStats # Nil) =>
        \A name \in DOMAIN avgStats :
            LET first  == firstSample[name]
                second == secondSample[name]
                tick   == (Get(second, "total") - Get(first, "total")) % Mod
            IN  /\ DOMAIN avgStats[name] = DOMAIN second \cup {"total"}
                /\ \A key \in DOMAIN second \ {"total"} :
                       LET delta == (second[key] - Get(first, key)) % Mod
                           rate  == avgStats[name][key]
                       IN  IF tick = 0
                           THEN rate = IF delta = 0 THEN NaN ELSE PosInf
                           ELSE NearestHundredth(rate, delta * 100, tick)
                /\ (/\ first = [user |-> 100, nice |-> 0, system |-> 50, idle |-> 850,
                                total |-> 1000]
                    /\ second = [user |-> 150, nice |-> 0, system |-> 100, idle |-> 900,
                                 total |-> 1150])
                       => /\ tick = 150
                          /\ avgStats[name]["user"] = Rat(3333, 100)
                          /\ avgStats[name]["system"] = Rat(3333, 100)
                          /\ avgStats[name]["idle"] = Rat(3333, 100)

\* The scenario of C9 derived for an entity.
C9_Witness ==
    /\ pc = "cpuDerived" /\ err = "none"
    /\ \E name \in DOMAIN avgStats :
           /\ Get(firstSample[name], "idle") = 850
           /\ Get(secondSample[name], "idle") = 900
           /\ GetFloat(avgStats[name], "user") = Rat(3333, 100)

\* C10: the derived `total` of every cpu is 100 minus the rounded idle
\* percentage of the same derived sample (0 when the sample has no idle),
\* whatever the loop over the keys computed for `total`.
C10_TotalFromRoundedIdle ==
    (pc \in {"cpuDerive", "cpuDerived"} /\ avgStats # Nil) =>
        \A name \in DOMAIN avgStats :
            LET idle  == GetFloat(avgStats[name], "idle")
                total == avgStats[name]["total"]
            IN  /\ "total" \in DOMAIN avgStats[name]
                /\ idle.k = "NaN" => total = NaN
                /\ idle.k = "+Inf" => total = NegInf
                /\ idle.k = "num" =>
                       /\ 100 % idle.d = 0
                       /\ total = Rat(10000 - Hundredths(idle), 100)

\* A derived cpu whose `total` (66.67 = 100 - 33.33) is not the 100.00 the
\* loop over the keys computes for the key `total`.
C10_Witness ==
    /\ pc = "cpuDerived" /\ err = "none"
    /\ \E name \in DOMAIN avgStats :
           /\ GetFloat(avgStats[name], "idle") = Rat(3333, 100)
           /\ GetFloat(avgStats[name], "total") = Rat(6667, 100)
           /\ GetFloat(CpuRangeKeys(firstSample[name], secondSample[name]), "total")
                  = Rat(10000, 100)

(***************************************************************************)
(* Properties of the interval calls.                                       *)
(***************************************************************************)
Names(arr) == {arr[i].Name : i \in 1..Len(arr)}

\* C2: an interval call whose second capture holds a device the first
\* capture does not hold fails.
C2_HotPlugFails ==
    (/\ pc = "diskReturned"
     /\ getDiskRawStats(source.first, 0).err = "none"
     /\ getDiskRawStats(source.second, 0).err = "none"
     /\ \E name \in Names(secondSample) : name \notin Names(firstSample))
        => err # "none"

\* C4: no disk interval call aborts the process, whatever the counter source
\* holds.
C4_DiskNeverAborts == pc # "diskPanic"

\* C5: no capture of the process domain aborts the process when the
\* load-average source has five fields.
C5_ProcNeverAborts == pc # "procPanic"

(***************************************************************************)
(* Properties of the rates (SpecDerive).                                   *)
(***************************************************************************)
\* C11: every rate of network derive is the uint64 difference of the
\* counter divided by the elapsed seconds second.time - first.time (a number
\* below zero when the second snapshot is the earlier one); rxbytes growing
\* by 1000 over 10 seconds gives exactly 100.
C11_NetRateFormula ==
    (pc \in {"netDerive", "netDerived"} /\ avgStats # Nil) =>
        \A name \in DOMAIN avgStats :
            LET first   == firstSample[name]
                second  == secondSample[name]
                elapsed == Get(second, "time") - Get(first, "time")
            IN  /\ DOMAIN avgStats[name] = DOMAIN second \ {"time"}
                /\ \A key \in DOMAIN second \ {"time"} :
                       avgStats[name][key]
                           = FDiv((second[key] - Get(first, key)) % Mod, elapsed)
                /\ (/\ elapsed = 10
                    /\ Get(second, "rxbytes") - Get(first, "rxbytes") = 1000)
                       => avgStats[name]["rxbytes"] = Rat(100, 1)

\* C12: the ReadBytes and WriteBytes of disk derive are the uint64
\* difference of the sector counters, each multiplied by 512 first, divided
\* by second.SampleTime - first.SampleTime; read sectors 1000 and 2000 two
\* seconds apart give 256000.
C12_DiskBytesFormula ==
    (pc = "diskDerived" /\ err = "none") =>
        LET elapsed == secondSample.SampleTime - firstSample.SampleTime
            Bytes(s1, s2) == (((s2 * 512) % Mod) - ((s1 * 512) % Mod)) % Mod
        IN  /\ avgStats.ReadBytes
                   = FDiv(Bytes(firstSample.ReadSectors, secondSample.ReadSectors), elapsed)
            /\ avgStats.WriteBytes
                   = FDiv(Bytes(firstSample.WriteSectors, secondSample.WriteSectors), elapsed)
            /\ (/\ firstSample.ReadSectors = 1000 /\ secondSample.ReadSectors = 2000
                /\ elapsed = 2)
                   => avgStats.ReadBytes = Rat(256000, 1)

\* The scenario of C12 derived.
C12_Witness ==
    /\ pc = "diskDerived" /\ err = "none"
    /\ firstSample.ReadSectors = 1000 /\ secondSample.ReadSectors = 2000
    /\ secondSample.SampleTime - firstSample.SampleTime = 2
    /\ avgStats.ReadBytes = Rat(256000, 1)

(***************************************************************************)
(* Properties of disk and process derive (SpecDerive).                     *)
(***************************************************************************)
\* C13: disk derive fails with the mismatch error and the zero DiskAvgStats
\* exactly when the samples differ in major, minor or name; when it succeeds
\* the result carries the major, minor and name of both samples.
C13_IdentityMismatch ==
    pc = "diskDerived" =>
        LET differ == \/ firstSample.Major # secondSample.Major
                      \/ firstSample.Minor # secondSample.Minor
                      \/ firstSample.Name # secondSample.Name
        IN  /\ differ => (err = "mismatch" /\ avgStats = ZeroDiskAvgStats)
            /\ ~differ =>
                   /\ err = "none"
                   /\ <<avgStats.Major, avgStats.Minor, avgStats.Name>>
                          = <<firstSample.Major, firstSample.Minor, firstSample.Name>>
                   /\ <<avgStats.Major, avgStats.Minor, avgStats.Name>>
                          = <<secondSample.Major, secondSample.Minor, secondSample.Name>>

\* Two samples that differ in the major number alone, refused.
C13_Witness ==
    /\ pc = "diskDerived" /\ err = "mismatch"
    /\ firstSample.Major # secondSample.Major
    /\ firstSample.Minor = secondSample.Minor
    /\ firstSample.Name = secondSample.Name

\* C14: process derive never fails; its new-process rate is the uint64
\* difference of the fork counters divided by second.Time - first.Time when
\* that is above 0, and exactly 0 otherwise, so it is always a finite number.
C14_NewProcsGuarded ==
    pc = "procDerived" =>
        LET elapsed == secondSample.Time - firstSample.Time
            forks   == (secondSample.Processes - firstSample.Processes) % Mod
        IN  /\ err = "none"
            /\ avgStats.NewProcs.k = "num"
            /\ elapsed > 0 => avgStats.NewProcs = Rat(forks, elapsed)
            /\ elapsed <= 0 => avgStats.NewProcs = Rat(0, 1)

\* Forks counted between two samples of which the second is the earlier one.
C14_Witness ==
    /\ pc = "procDerived" /\ err = "none"
    /\ secondSample.Time < firstSample.Time
    /\ secondSample.Processes > firstSample.Processes
    /\ avgStats.NewProcs = Rat(0, 1)

\* C15: the Running, Blocked, RunQueue and Total of process derive are
\* those of the second sample, whatever the first sample and the times are.
C15_GaugesOfSecond ==
    pc = "procDerived" =>
        /\ avgStats.Running = secondSample.Running
        /\ avgStats.Blocked = secondSample.Blocked
        /\ avgStats.RunQueue = secondSample.RunQueue
        /\ avgStats.Total = secondSample.Total

\* A derive whose first sample has other current values than the second.
C15_Witness ==
    /\ pc = "procDerived"
    /\ firstSample.Running # secondSample.Running
    /\ firstSample.Blocked # secondSample.Blocked
    /\ firstSample.RunQueue # secondSample.RunQueue
    /\ firstSample.Total # secondSample.Total
    /\ avgStats.Running = secondSample.Running

\* C16: the InFlight of disk derive is that of the second sample and its
\* TimeInQueue is the uint64 difference of the two samples; both stay the
\* same when the second sample is stamped with any other time.
C16_GaugeAndDeltaUndivided ==
    (pc = "diskDerived" /\ err = "none") =>
        /\ avgStats.InFlight = secondSample.InFlight
        /\ avgStats.TimeInQueue
               = (secondSample.TimeInQueue - firstSample.TimeInQueue) % Mod
        /\ \A t \in Times :
               LET other == getDiskAvgStats(firstSample,
                                            [secondSample EXCEPT !.SampleTime = t])
               IN  /\ other.diskAvgStats.InFlight = avgStats.InFlight
                   /\ other.diskAvgStats.TimeInQueue = avgStats.TimeInQueue

\* A derive over 10 seconds whose queue time grew by 10 and whose second
\* sample has 2 requests in flight.
C16_Witness ==
    /\ pc = "diskDerived" /\ err = "none"
    /\ secondSample.SampleTime - firstSample.SampleTime = 10
    /\ firstSample.TimeInQueue = 9 /\ secondSample.TimeInQueue = 19
    /\ firstSample.InFlight = 1 /\ secondSample.InFlight = 2
    /\ avgStats.TimeInQueue = 10 /\ avgStats.InFlight = 2

(***************************************************************************)
(* Properties of the network capture (SpecNetInterval).                    *)
(***************************************************************************)
\* The place of the first ':' of a line that has one.
ColonAt(line) == CHOOSE i \in 1..Len(line) : line[i] = ":" /\ \A j \in 1..(i - 1) : line[j] # ":"

\* The interface name of a record: the text before its first ':', without
\* the blanks in front.
RecordName(line) == DropSpaces(SubSeq(line, 1, ColonAt(line) - 1))

\* The counters of a record: the fields after its first ':'.
RecordCounters(line) == Fields(SubSeq(line, ColonAt(line) + 1, Len(line)))

\* C18: after a capture that accepted every record of /proc/net/dev, no
\* key of the snapshot holds a ':', every record's name is a key, and the
\* rxbytes under a name is the first counter of the last record of that name,
\* with or without a blank between the ':' and the counter.
C18_KeyAndFirstCounter ==
    pc = "netSleep" =>
        LET lines   == source.first.lines
            records == {i \in 1..Len(lines) : FindIfaceStats(lines[i]) # <<>>}
        IN  /\ \A key \in DOMAIN firstSample : \A c \in 1..Len(key) : key[c] # ":"
            /\ \A i \in records :
                   /\ RecordName(lines[i]) \in DOMAIN firstSample
                   /\ (/\ RecordCounters(lines[i]) # <<>>
                       /\ \A j \in records :
                              RecordName(lines[j]) = RecordName(lines[i]) => j <= i)
                          => Get(firstSample[RecordName(lines[i])], "rxbytes")
                                 = ParseUint(RecordCounters(lines[i])[1]).val

(***************************************************************************)
(* Properties of the entity keys (SpecCalls).                              *)
(***************************************************************************)
\* C17: every entity key of the result of derive or of an interval call, in
\* the CPU, network and disk domains, is an entity key of the first input
\* snapshot and of the second input snapshot.
C17_OutputKeysInBothInputs ==
    /\ (pc \in {"cpuDerived", "cpuReturned", "netDerived", "netReturned"} /\ err = "none")
          => DOMAIN avgStats \subseteq (DOMAIN firstSample \cap DOMAIN secondSample)
    /\ (pc = "diskDerived" /\ err = "none")
          => (avgStats.Name = firstSample.Name /\ avgStats.Name = secondSample.Name)
    /\ (pc = "diskReturned" /\ err = "none")
          => Names(avgStats) \subseteq (Names(firstSample) \cap Names(secondSample))

\* A network derive that returns rates of some interface while the first
\* snapshot holds an interface the second does not.
C17_Witness ==
    /\ pc = "netDerived" /\ err = "none"
    /\ DOMAIN avgStats # {}
    /\ DOMAIN firstSample \ DOMAIN secondSample # {}
    /\ DOMAIN avgStats = DOMAIN secondSample

(***************************************************************************)
(* Properties of the steps of an interval call (SpecIntervals).            *)
(***************************************************************************)
\* The positions of an interval call, by step.
StartPcs    == {"cpuStart", "netStart", "diskStart", "procStart"}
SleepPcs    == {"cpuSleep", "netSleep", "diskSleep", "procSleep"}
SecondPcs   == {"cpuSecond", "netSecond", "diskSecond", "procSecond"}
DerivePcs   == {"cpuDerive", "netDerive", "diskPair", "procPair"}
DerivedPcs  == {"cpuDerived", "netDerived"}
ReturnedPcs == {"cpuReturned", "netReturned", "diskReturned", "procReturned"}
AbortedPcs  == {"diskPanic", "procPanic"}

\* The positions of one call.
CallPcs ==
    {{"cpuStart", "cpuSleep", "cpuSecond", "cpuDerive", "cpuDerived", "cpuReturned"},
     {"netStart", "netSleep", "netSecond", "netDerive", "netDerived", "netReturned"},
     {"diskStart", "diskSleep", "diskSecond", "diskPair", "diskReturned", "diskPanic"},
     {"procStart", "procSleep", "procSecond", "procPair", "procReturned", "procPanic"}}

\* The error of the capture the call at pc makes from the counter source
\* file at the time now.
CaptureErr(file) ==
    IF pc \in {"cpuStart", "cpuSecond"} THEN getCpuRawStats(file).err
    ELSE IF pc \in {"netStart", "netSecond"} THEN getNetRawStats(file, now).err
    ELSE IF pc \in {"diskStart", "diskSecond"} THEN getDiskRawStats(file, now).err
    ELSE getProcRawStats(file, now).err

\* The call ends with the failure e: it is returned, or the process aborts.
EndsWith(e) ==
    \/ pc' \in ReturnedPcs /\ err' = e /\ e # "none"
    \/ pc' \in AbortedPcs

\* C19: every step of an interval call is the next one of first capture,
\* suspension, second capture, derive, return, so that no step is taken twice;
\* a first capture that fails ends the call with its failure, the clock and
\* the second snapshot untouched; a second capture that fails ends the call
\* with its failure and no result of derive; the failure of derive is the
\* failure the call returns; a call that has ended takes no step.
C19_StepsInOrderOnce ==
    [][/\ \E call \in CallPcs : pc \in call /\ pc' \in call
       /\ pc \in StartPcs =>
             IF CaptureErr(source.first) = "none"
             THEN pc' \in SleepPcs \cup AbortedPcs
             ELSE /\ EndsWith(CaptureErr(source.first))
                  /\ now' = now /\ secondSample' = secondSample
                  /\ firstSample' = firstSample
       /\ pc \in SleepPcs => (pc' \in SecondPcs /\ firstSample' = firstSample)
       /\ pc \in SecondPcs =>
             IF CaptureErr(source.second) = "none"
             THEN pc' \in DerivePcs /\ now' = now /\ firstSample' = firstSample
             ELSE /\ EndsWith(CaptureErr(source.second))
                  /\ pc' \in ReturnedPcs => avgStats' = Nil
       /\ pc \in DerivePcs =>
             /\ firstSample' = firstSample /\ secondSample' = secondSample /\ now' = now
             /\ \/ pc' = pc /\ pending' \subseteq pending /\ pending' # pending
                \/ pc' \in DerivedPcs \cup ReturnedPcs
       /\ pc \in DerivedPcs =>
             (pc' \in ReturnedPcs /\ err' = err /\ avgStats' = avgStats)
       /\ pc \notin ReturnedPcs \cup AbortedPcs
      ]_vars

\* A network call whose first capture gave a snapshot and whose second
\* capture failed has returned that failure and no rates.
C19_Witness ==
    /\ pc = "netReturned"
    /\ DOMAIN firstSample # {}
    /\ now # StartTime
    /\ getNetRawStats(source.second, now).err # "none"
    /\ err = getNetRawStats(source.second, now).err
    /\ avgStats = Nil

(***************************************************************************)
(* Properties of the elapsed time of an interval call (SpecIntervals).     *)
(***************************************************************************)
\* The rate of a counter over the elapsed seconds between two timestamps.
RateOver(firstValue, secondValue, firstTime, secondTime) ==
    FDiv((secondValue - firstValue) % Mod, secondTime - firstTime)

\* C20: the result of a network, disk or process interval call is fixed by
\* the two snapshots alone, whatever the interval: every rate is the counter
\* difference divided by second.timestamp - first.timestamp (the process
\* rate is 0 when that difference is not above 0).
C20_ElapsedFromTimestamps ==
    /\ (pc = "netReturned" /\ err = "none") =>
          avgStats =
              [name \in DOMAIN secondSample |->
                  [key \in DOMAIN secondSample[name] \ {"time"} |->
                      RateOver(Get(firstSample[name], key), secondSample[name][key],
                               Get(firstSample[name], "time"),
                               Get(secondSample[name], "time"))]]
    /\ (pc = "diskReturned" /\ err = "none") =>
          \A i \in 1..Len(avgStats) :
              \E j \in 1..Len(firstSample) :
                  LET first  == firstSample[j]
                      second == FindByName(secondSample, first.Name)
                  IN  /\ avgStats[i].Name = first.Name
                      /\ avgStats[i].ReadIOs
                             = RateOver(first.ReadIOs, second.ReadIOs,
                                        first.SampleTime, second.SampleTime)
                      /\ avgStats[i].WriteIOs
                             = RateOver(first.WriteIOs, second.WriteIOs,
                                        first.SampleTime, second.SampleTime)
                      /\ avgStats[i].ReadBytes
                             = RateOver(SectorsToBytes(first.ReadSectors),
                                        SectorsToBytes(second.ReadSectors),
                                        first.SampleTime, second.SampleTime)
    /\ (pc = "procReturned" /\ err = "none") =>
          avgStats.NewProcs
              = IF secondSample.Time - firstSample.Time <= 0 THEN Zero
                ELSE RateOver(firstSample.Processes, secondSample.Processes,
                              firstSample.Time, secondSample.Time)

(***************************************************************************)
(* Properties of the captures (SpecIntervals).                             *)
(***************************************************************************)
\* C21: all entities of a network or disk snapshot carry one timestamp, the
\* clock of the capture that built it, whatever the number of records: the
\* first snapshot the clock at the start of the call, the second snapshot
\* the clock after the sleep.
C21_OneTimestampPerCapture ==
    /\ pc \in {"netSleep", "netSecond", "netDerive", "netDerived", "netReturned"} =>
          \A name \in DOMAIN firstSample :
              Get(firstSample[name], "time") = StartTime % Mod
    /\ pc \in {"netDerive", "netDerived"} =>
          \A name \in DOMAIN secondSample : Get(secondSample[name], "time") = now % Mod
    /\ pc \in {"diskSleep", "diskSecond", "diskPair", "diskReturned"} =>
          \A i \in 1..Len(firstSample) : firstSample[i].SampleTime = StartTime
    /\ pc = "diskPair" =>
          \A i \in 1..Len(secondSample) : secondSample[i].SampleTime = now

\* A disk call whose two captures hold two records each, the second capture
\* made at another time than the first.
C21_Witness ==
    /\ pc = "diskPair"
    /\ Len(firstSample) >= 2 /\ Len(secondSample) >= 2
    /\ now # StartTime
    /\ secondSample[1].SampleTime = secondSample[2].SampleTime
    /\ secondSample[1].SampleTime # firstSample[1].SampleTime

(***************************************************************************)
(* Properties of the CPU capture (SpecCpuInterval).                        *)
(***************************************************************************)
\* The line begins with the three characters c, p, u.
HasCpuPrefix(line) ==
    Len(line) >= 3 /\ line[1] = "c" /\ line[2] = "p" /\ line[3] = "u"

\* The length of the longest initial run of lines with the prefix.
InitialCpuRun(lines) ==
    CHOOSE n \in 0..Len(lines) :
        /\ \A i \in 1..n : HasCpuPrefix(lines[i])
        /\ (n = Len(lines) \/ ~HasCpuPrefix(lines[n + 1]))

\* C22: a CPU capture that succeeds returns exactly the records of the
\* longest initial run of lines with the prefix `cpu`, the last record of a
\* name standing for the name; no record after the first line without the
\* prefix is in the snapshot.
C22_InitialRunOnly ==
    pc = "cpuSleep" =>
        LET lines   == source.first.lines
            n       == InitialCpuRun(lines)
            name(i) == parseCpuRawStats(lines[i]).cpuName
            last(c) == CHOOSE i \in 1..n :
                           name(i) = c /\ \A j \in 1..n : name(j) = c => j <= i
        IN  /\ DOMAIN firstSample = {name(i) : i \in 1..n}
            /\ \A c \in DOMAIN firstSample :
                   firstSample[c] = parseCpuRawStats(lines[last(c)]).rawStats

\* A capture of a source whose first line has no prefix and whose second
\* line is a cpu record: the snapshot is empty.
C22_Witness ==
    /\ pc = "cpuSleep"
    /\ Len(source.first.lines) = 2
    /\ ~HasCpuPrefix(source.first.lines[1])
    /\ HasCpuPrefix(source.first.lines[2])
    /\ firstSample = EmptyMap

(***************************************************************************)
(* Properties of the process capture (SpecProcInterval).                   *)
(***************************************************************************)
\* C23: a process capture that returns a snapshot has read a fourth
\* load-average field whose run-queue part and total part are unsigned
\* integers; with a part that is none the capture returns an error.
C23_FourthFieldErrorFails ==
    pc = "procSleep" =>
        LET fields      == Fields(Join(source.first.loadavg.lines))
            fourthField == Split(fields[4])
        IN  /\ ParseUint(fourthField[1]).err = "none"
            /\ ParseUint(fourthField[2]).err = "none"

(***************************************************************************)
(* Properties of concurrent calls (SpecConcurrent).                        *)
(***************************************************************************)
\* The result of a call of the domain kind that runs alone and makes its
\* captures at the given times.
AloneResult(kind, times) ==
    LET first == Capture(kind, times[1])
    IN  IF first.err # "none" THEN [avgStats |-> Nil, err |-> first.err]
        ELSE LET second == Capture(kind, times[2])
             IN  IF second.err # "none" THEN [avgStats |-> Nil, err |-> second.err]
                 ELSE Derive(kind, first.sample, second.sample)

\* C24: in every interleaving of the steps of concurrent calls, the
\* snapshots a call holds are the captures it made itself, and the result it
\* returns is the result of a call that runs alone on the same counter
\* readings.
C24_ConcurrentCallsAsAlone ==
    \A c \in Calls :
        /\ pc[c] \in {"concSleep", "concSecond", "concDerive"} =>
              firstSample[c] = Capture(source[c], parsed[c][1]).sample
        /\ pc[c] = "concDerive" =>
              secondSample[c] = Capture(source[c], parsed[c][2]).sample
        /\ pc[c] = "concReturned" =>
              /\ avgStats[c] = AloneResult(source[c], parsed[c]).avgStats
              /\ err[c] = AloneResult(source[c], parsed[c]).err

\* Two calls of one domain have returned rates that differ, one of them
\* having made its first capture between the two captures of the other.
C24_Witness ==
    \E c, d \in Calls :
        /\ c # d /\ source[c] = source[d]
        /\ pc[c] = "concReturned" /\ pc[d] = "concReturned"
        /\ err[c] = "none" /\ err[d] = "none"
        /\ parsed[c][1] < parsed[d][1] /\ parsed[d][1] < parsed[c][2]
        /\ avgStats[c] # avgStats[d]

(***************************************************************************)
(* Properties of counters that decrease (SpecDerive).                      *)
(***************************************************************************)
\* The float is a number above 0 or +Inf.
IsPositive(x) == x = PosInf \/ (x.k = "num" /\ x.n > 0)

\* C25: network derive on two snapshots with the same interfaces does not
\* fail, and the rate of a counter whose second value is below its first
\* value is the difference modulo 2^64 divided by the elapsed seconds
\* second.time - first.time, a positive value.
C25_DecreasedCounterWraps ==
    (pc = "netDerived" /\ DOMAIN secondSample \subseteq DOMAIN firstSample) =>
        /\ err = "none"
        /\ \A name \in DOMAIN secondSample :
               LET first   == firstSample[name]
                   second  == secondSample[name]
                   elapsed == Get(second, "time") - Get(first, "time")
               IN  \A key \in DOMAIN second \ {"time"} :
                       second[key] < Get(first, key) =>
                           /\ avgStats[name][key]
                                  = FDiv((second[key] - Get(first, key)) % Mod, elapsed)
                           /\ IsPositive(avgStats[name][key])

(***************************************************************************)
(* Properties of the sector counters (SpecDerive).                         *)
(***************************************************************************)
\* The byte rate of a sector counter that grew from s1 to s2.
BytesGrown(s1, s2, elapsed) == FDiv(SectorBytes * (s2 - s1), elapsed)

\* The growth of a sector counter from s1 to s2 is below 2^64 bytes.
GrowthFits(s1, s2) == s2 >= s1 /\ SectorBytes * (s2 - s1) < Mod

\* C26: ReadBytes and WriteBytes of disk derive are 512 * (second.sectors -
\* first.sectors) / elapsed whenever the sector counter did not decrease and
\* that product is below 2^64, also when sectors * 512 of a sample is not.
C26_BytesDespiteOverflow ==
    (pc = "diskDerived" /\ err = "none") =>
        LET elapsed == secondSample.SampleTime - firstSample.SampleTime
        IN  /\ GrowthFits(firstSample.ReadSectors, secondSample.ReadSectors) =>
                  avgStats.ReadBytes
                      = BytesGrown(firstSample.ReadSectors, secondSample.ReadSectors, elapsed)
            /\ GrowthFits(firstSample.WriteSectors, secondSample.WriteSectors) =>
                  avgStats.WriteBytes
                      = BytesGrown(firstSample.WriteSectors, secondSample.WriteSectors,
                                   elapsed)

\* A derive on read sector counters whose byte values are both above the
\* largest uint64 and which grew by 8 sectors in 2 seconds: 2048 bytes a
\* second.
C26_Witness ==
    /\ pc = "diskDerived" /\ err = "none"
    /\ firstSample.ReadSectors * SectorBytes >= Mod
    /\ secondSample.ReadSectors = firstSample.ReadSectors + 8
    /\ secondSample.SampleTime - firstSample.SampleTime = 2
    /\ avgStats.ReadBytes = Rat(2048, 1)

(***************************************************************************)
(* Properties of the range of the CPU percentages (SpecDerive).            *)
(***************************************************************************)
\* The float is a number from 0 to 100.
InPercentRange(x) == x.k = "num" /\ 0 <= x.n /\ x.n <= 100 * x.d

\* The raw stats are those of a record of at most 10 numeric fields: every
\* field summed into `total` is stored under its key.
OfAtMostTenFields(rawStats) ==
    Get(rawStats, "total") = SumOver(rawStats, CpuKeys) % Mod

\* No per-mode counter of second is below its value in first, and the tick
\* delta is positive.
CountersGrew(first, second) ==
    /\ \A key \in DOMAIN second \ {"total"} : second[key] >= Get(first, key)
    /\ Get(second, "total") - Get(first, "total") > 0

\* Every percentage derived for the cpu name, `total` included, is in range.
AllInPercentRange(name) ==
    \A key \in DOMAIN avgStats[name] : InPercentRange(avgStats[name][key])

\* C27 as stated: when no per-mode counter of the second sample is below its
\* value in the first, the tick delta is positive and both samples are of
\* records of at most 10 numeric fields, every derived percentage and the
\* derived `total` are from 0 to 100.
C27_PercentagesInRange ==
    (pc = "cpuDerived" /\ err = "none") =>
        \A name \in DOMAIN avgStats :
            (/\ OfAtMostTenFields(firstSample[name])
             /\ OfAtMostTenFields(secondSample[name])
             /\ CountersGrew(firstSample[name], secondSample[name]))
                => AllInPercentRange(name)

\* C27: the percentages and `total` are from 0 to 100 when, in addition,
\* every per-mode counter of the first sample is a counter of the second
\* sample and the `total` of the second sample is the sum of its counters,
\* not that sum modulo 2^64.
C27_PercentagesInRangeSameModes ==
    (pc = "cpuDerived" /\ err = "none") =>
        \A name \in DOMAIN avgStats :
            (/\ OfAtMostTenFields(firstSample[name])
             /\ OfAtMostTenFields(secondSample[name])
             /\ CountersGrew(firstSample[name], secondSample[name])
             /\ DOMAIN firstSample[name] \subseteq DOMAIN secondSample[name]
             /\ Get(secondSample[name], "total") = SumOver(secondSample[name], CpuKeys))
                => AllInPercentRange(name)

\* A derive on records of 4 fields whose counters grew: user is 33.33 and
\* every percentage is in range.
C27_Witness ==
    /\ pc = "cpuDerived" /\ err = "none"
    /\ \E name \in DOMAIN avgStats :
           /\ OfAtMostTenFields(firstSample[name])
           /\ OfAtMostTenFields(secondSample[name])
           /\ CountersGrew(firstSample[name], secondSample[name])
           /\ DOMAIN firstSample[name] = DOMAIN secondSample[name]
           /\ Get(secondSample[name], "total") = SumOver(secondSample[name], CpuKeys)
           /\ GetFloat(avgStats[name], "user") = Rat(3333, 100)
           /\ GetFloat(avgStats[name], "total") = Rat(6667, 100)
           /\ AllInPercentRange(name)

(***************************************************************************)
(* Independence of the visiting order (SpecDerive).                        *)
(***************************************************************************)
RECURSIVE CpuKeysInOrder(_, _, _, _, _)
\* The inner loop of getCpuAvgStats visiting the keys of secondRawStats in
\* the order of the sequence keys, cpuStats being the map built so far.
CpuKeysInOrder(keys, firstRawStats, secondRawStats, timeDelta, cpuStats) ==
    IF keys = <<>> THEN cpuStats
    ELSE LET key == Head(keys)
         IN  CpuKeysInOrder(Tail(keys), firstRawStats, secondRawStats, timeDelta,
                 IF key = "Total" THEN cpuStats
                 ELSE Put(cpuStats, key,
                          Percent((secondRawStats[key] - Get(firstRawStats, key)) % Mod,
                                  timeDelta)))

\* The CpuAvgStats of one cpu when the inner loop takes the keys in the
\* order of the sequence keys.
CpuEntityStatsInOrder(keys, firstRawStats, secondRawStats) ==
    LET timeDelta == (Get(secondRawStats, "total") - Get(firstRawStats, "total")) % Mod
        cpuStats  == CpuKeysInOrder(keys, firstRawStats, secondRawStats, timeDelta, EmptyMap)
    IN  Put(cpuStats, "total", FormatParse2(Sub100(GetFloat(cpuStats, "idle"))))

RECURSIVE IfaceKeysInOrder(_, _, _, _, _)
\* The inner loop of getNetAvgStats visiting the keys in the order of the
\* sequence keys.
IfaceKeysInOrder(keys, firstRawStats, secondRawStats, timeDelta, ifaceAvgStats) ==
    IF keys = <<>> THEN ifaceAvgStats
    ELSE LET key == Head(keys)
         IN  IfaceKeysInOrder(Tail(keys), firstRawStats, secondRawStats, timeDelta,
                 IF key = "time" THEN ifaceAvgStats
                 ELSE Put(ifaceAvgStats, key,
                          FDiv((secondRawStats[key] - Get(firstRawStats, key)) % Mod,
                               timeDelta)))

IfaceEntityStatsInOrder(keys, firstRawStats, secondRawStats) ==
    LET timeDelta == (Get(secondRawStats, "time") - Get(firstRawStats, "time")) % Mod
    IN  IfaceKeysInOrder(keys, firstRawStats, secondRawStats, timeDelta, EmptyMap)

RECURSIVE ReverseSeq(_)
ReverseSeq(s) == IF s = <<>> THEN <<>> ELSE Append(ReverseSeq(Tail(s)), Head(s))

\* The keys of the map in the order of the sequence all.
KeysAlong(m, all) == SelectSeq(all, LAMBDA key : key \in DOMAIN m)

\* Visiting orders of the keys of the map: along all, against it, and along
\* it from its second half on.
KeyOrders(m, all) ==
    LET keys == KeysAlong(m, all)
        half == Len(keys) \div 2
    IN  {keys, ReverseSeq(keys),
         SubSeq(keys, half + 1, Len(keys)) \o SubSeq(keys, 1, half)}

CpuKeysAndTotal == <<"total">> \o CpuKeys
NetKeysAndTime == NetKeys \o <<"time">>

\* The outcome of getCpuAvgStats as a function of its two arguments alone.
CpuDeriveSucceeds(first, second) ==
    \A cpuName \in DOMAIN second : MatchesCpu(cpuName) /\ cpuName \in DOMAIN first

\* C28: when a CPU or network derive has returned, its success and the
\* snapshot it returns are functions of the two input snapshots alone, so
\* runs that visited the entities in different orders agree on them; and the
\* value of every entity is the same for each order of visiting its fields.
C28_OrderIndependent ==
    /\ pc = "cpuDerived" =>
           /\ err = "none" <=> CpuDeriveSucceeds(firstSample, secondSample)
           /\ err = "none" =>
                  /\ DOMAIN avgStats = DOMAIN secondSample
                  /\ \A cpuName \in DOMAIN secondSample :
                         \A keys \in KeyOrders(secondSample[cpuName], CpuKeysAndTotal) :
                             avgStats[cpuName] =
                                 CpuEntityStatsInOrder(keys, firstSample[cpuName],
                                                       secondSample[cpuName])
    /\ pc = "netDerived" =>
           /\ err = "none" <=> DOMAIN secondSample \subseteq DOMAIN firstSample
           /\ err = "none" =>
                  /\ DOMAIN avgStats = DOMAIN secondSample
                  /\ \A ifaceName \in DOMAIN secondSample :
                         \A keys \in KeyOrders(secondSample[ifaceName], NetKeysAndTime) :
                             avgStats[ifaceName] =
                                 IfaceEntityStatsInOrder(keys, firstSample[ifaceName],
                                                         secondSample[ifaceName])

\* A network derive that has failed on a second snapshot of two interfaces
\* of which one is in the first snapshot: one visiting order meets the
\* missing interface at once, the other after deriving the present one.
C28_Witness ==
    /\ pc = "netDerived" /\ err = "missing"
    /\ Cardinality(DOMAIN secondSample) = 2
    /\ Cardinality(DOMAIN secondSample \cap DOMAIN firstSample) = 1

(***************************************************************************)
(* Properties of a capture that fails (SpecCapture).                       *)
(***************************************************************************)
\* C29: a capture call that returns an error returns no snapshot data with
\* it: nil for CPU and network, no disk sample for disk.
C29_NoPartialSnapshot ==
    /\ (pc \in {"cpuCaptured", "netCaptured"} /\ err # "none") => firstSample = Nil
    /\ (pc = "diskCaptured" /\ err # "none") => Len(firstSample) = 0

====
